---- MODULE Spec2Model ----
(***************************************************************************)
(* Street-name reconciliation (OSM segments vs. the LAMAS registry).       *)
(*                                                                         *)
(* Spec     : run_pipeline from the end of Step 2 (names normalized, rows  *)
(*            with a null normalized_name dropped) to the diagnostics:     *)
(*            find_fuzzy_candidates, the get_ai_resolution retry loop, the *)
(*            final merge and both revisions of the diagnostics summary.   *)
(* SpecAdj  : build_adjacency_map over a collection of segment endpoints.  *)
(*                                                                         *)
(* Scores are kept as integers scaled by 10 (weights 2/3/5 instead of      *)
(* 0.2/0.3/0.5), so the thresholds 90 and 80 are 900 and 800.              *)
(***************************************************************************)
EXTENDS Integers, Sequences, FiniteSets, TLC

\* ---------------------------------------------------------------- bounds
MaxSeg == 2          \* segments of one run
MaxAdjSeg == 2       \* segments handed to build_adjacency_map
NumPoints == 3       \* distinct endpoint coordinates
MaxCand == 6         \* registry entries scored for one segment
MaxPieces == 3       \* pieces of an input of normalize_street_name
MaxList == 2         \* candidates of a serialized candidate list
MaxNameLen == 2      \* characters of a registry name in that list
MaxPromptSeg == 3    \* segments of a run whose requests are built
MaxSettlements == 3  \* settlements of one batch
MaxNameChars == 3    \* characters of a settlement name

\* ------------------------------------------------------ program constants
MAX_RETRIES == 3
CONFIDENT_THRESHOLD == 90
AI_FLOOR == 80
TOP_K == 5
STREET_CODE_LEN == 3

\* Python None and pandas NaN (a missing cell after a left merge).
None == "<None>"
NoName == <<None>>   \* None where a name (a sequence of characters) is expected
NaN == "<NaN>"

\* ----------------------------------------------------------------- inputs
\* The registry after Step 2: (settlement, identifier, name, normalized name).
\* 101 has two synonym names, 1001 is a 4-digit (non-street) code, 303
\* belongs to another settlement.
LAMAS_df ==
  << [city |-> "c1", LAMAS_id |-> "101",  LAMAS_name |-> "L1", normalized_name |-> "L1"],
     [city |-> "c1", LAMAS_id |-> "101",  LAMAS_name |-> "L2", normalized_name |-> "L2"],
     [city |-> "c1", LAMAS_id |-> "202",  LAMAS_name |-> "L3", normalized_name |-> "L3"],
     [city |-> "c1", LAMAS_id |-> "1001", LAMAS_name |-> "L5", normalized_name |-> "L5"],
     [city |-> "c3", LAMAS_id |-> "303",  LAMAS_name |-> "L6", normalized_name |-> "L6"] >>

HeVals == {None, "x90", "x85"}
NameVals == {"x100", "x80", "x50", ""}

\* One OSM row after Step 2 (osm_id is assigned by position in Init): the
\* settlement label, the normalized Hebrew name, the normalized primary name
\* (never null after Step 2) and the normalized original name.  Settlement c1
\* has registry rows, c2 has none.  A Hebrew name is paired with a primary
\* name that scores above it and with one that scores below it; the primary
\* name x80 occurs with a confident Hebrew name, with a Hebrew name in the
\* arbitration band and without one.
SegmentInputs ==
  {r \in [city : {"c1"}, he : HeVals, name : NameVals, original : {None}] :
     \/ r.he = None
     \/ r.he = "x90" /\ r.name \in {"x100", "x80"}
     \/ r.he = "x85" /\ r.name \in {"x100", "x80"}}
    \cup { [city |-> "c2", he |-> None, name |-> "x100", original |-> None],
           [city |-> "c1", he |-> None, name |-> "x80",  original |-> "xT"],
           [city |-> "c1", he |-> "x85", name |-> "",    original |-> "xT"] }

SegId(k) == IF k = 1 THEN "s1" ELSE IF k = 2 THEN "s2" ELSE IF k = 3 THEN "s3" ELSE "s4"

\* The three fuzzywuzzy metrics (ratio, token_sort_ratio, token_set_ratio) of
\* an OSM name against a registry name, as a table over the names above.
fuzz(a, b) ==
  CASE a = "x100" /\ b \in {"L1", "L6"} -> <<100, 100, 100>>
    [] a = "x90"  /\ b = "L3"           -> <<90, 90, 90>>
    [] a = "x90"  /\ b = "L1"           -> <<85, 85, 85>>
    [] a = "x85"  /\ b \in {"L1", "L2"} -> <<80, 85, 88>>
    [] a = "x85"  /\ b = "L3"           -> <<70, 80, 90>>
    [] a = "x80"  /\ b = "L3"           -> <<80, 80, 80>>
    [] a = "x80"  /\ b = "L1"           -> <<79, 80, 80>>
    [] a = "xT"   /\ b = "L5"           -> <<60, 80, 88>>
    [] a = "x50"                        -> <<50, 50, 50>>
    [] OTHER                            -> <<30, 30, 30>>

\* np.average([ratio, token_sort, token_set], weights=[0.2, 0.3, 0.5]) * 10
weighted_score(m) == 2 * m[1] + 3 * m[2] + 5 * m[3]

\* ------------------------------------------------------- generic helpers
RECURSIVE SetToSeq(_)
SetToSeq(S) ==
  IF S = {} THEN <<>>
  ELSE LET x == CHOOSE y \in S : TRUE IN <<x>> \o SetToSeq(S \ {x})

RECURSIVE MaxOf(_)
MaxOf(S) ==
  LET x == CHOOSE y \in S : TRUE
  IN IF S = {x} THEN x
     ELSE LET m == MaxOf(S \ {x}) IN IF x >= m THEN x ELSE m

\* mutant: the candidate list is not cut
Head5_uncut(s) == s

\* .head(5)
Head5(s) == IF Len(s) > TOP_K THEN SubSeq(s, 1, TOP_K) ELSE s

\* truthiness of a name cell: None and "" are falsy
Truthy(v) == v # None /\ v # ""


\* ------------------------------------------------ normalization.py scoring
\* _calculate_scores: one entry per registry row of the subset, in row order;
\* nothing for a null or empty name.
calculate_scores(osm_name, lamas_subset) ==
  IF ~Truthy(osm_name) THEN <<>>
  ELSE [k \in 1..Len(lamas_subset) |->
          [LAMAS_id       |-> lamas_subset[k].LAMAS_id,
           LAMAS_name     |-> lamas_subset[k].LAMAS_name,
           weighted_score |-> weighted_score(fuzz(osm_name, lamas_subset[k].normalized_name)),
           match_source   |-> osm_name]]

\* mutant: the registry is not cut down to the segment's settlement
LamasSubset_unscoped(df, osm_city) == df

\* LAMAS_df[LAMAS_df['city'] == osm_city]
LamasSubset(df, osm_city) ==
  LET IsCity(r) == r.city = osm_city IN SelectSeq(df, IsCity)

\* mutant: the CONFIDENT cut-off taken as exclusive
is_confident_exclusive(score) == score > 10 * CONFIDENT_THRESHOLD

\* the threshold tests of find_fuzzy_candidates
is_confident(score) == score >= 10 * CONFIDENT_THRESHOLD
in_ai_band(score) == score >= 10 * AI_FLOOR /\ score < 10 * CONFIDENT_THRESHOLD

\* max(confident_hebrew_match, key=weighted_score): Python's max keeps the
\* first of several equal maxima.
RECURSIVE FirstMax(_)
FirstMax(s) ==
  IF Len(s) = 1 THEN s[1]
  ELSE LET m == FirstMax(Tail(s))
       IN IF s[1].weighted_score >= m.weighted_score THEN s[1] ELSE m

ScoreIds(all) == {all[k].LAMAS_id : k \in 1..Len(all)}
TopOf(all, id) ==
  MaxOf({all[k].weighted_score : k \in {j \in 1..Len(all) : all[j].LAMAS_id = id}})
Reps(all, id) ==
  {all[k] : k \in {j \in 1..Len(all) :
                     all[j].LAMAS_id = id /\ all[j].weighted_score = TopOf(all, id)}}

RECURSIVE SortedIdSeqs(_, _)
SortedIdSeqs(all, ids) ==
  IF ids = {} THEN {<<>>}
  ELSE LET m == MaxOf({TopOf(all, x) : x \in ids})
       IN UNION {{<<x>> \o t : t \in SortedIdSeqs(all, ids \ {x})} :
                    x \in {y \in ids : TopOf(all, y) = m}}

\* the tables that hold, for each identifier of q in turn, one of its
\* highest-scoring rows
RECURSIVE RowsFor(_, _)
RowsFor(all, q) ==
  IF Len(q) = 0 THEN {<<>>}
  ELSE {<<r>> \o t : r \in Reps(all, q[1]), t \in RowsFor(all, Tail(q))}

\* sort_values(by='weighted_score', ascending=False).drop_duplicates(['LAMAS_id']):
\* the sort is pandas' default quicksort, which is not stable, so rows of equal
\* score may come out in any order; drop_duplicates keeps the first row of each
\* identifier.  The result is therefore one highest-scoring row per identifier,
\* identifiers in descending order of that score, ties in any order.
sort_drop_duplicates(all) ==
  UNION {RowsFor(all, q) : q \in SortedIdSeqs(all, ScoreIds(all))}

\* mutant: a MISSING row that always reports the score 0
MissingRow_zero_score(osm_id, score) ==
  [osm_id |-> osm_id, status |-> "MISSING", best_LAMAS_id |-> None,
   best_LAMAS_name |-> None, best_score |-> 0, all_candidates |-> None]

MissingRow(osm_id, score) ==
  [osm_id |-> osm_id, status |-> "MISSING", best_LAMAS_id |-> None,
   best_LAMAS_name |-> None, best_score |-> score, all_candidates |-> None]

ConfidentRow(osm_id, best) ==
  [osm_id |-> osm_id, status |-> "CONFIDENT", best_LAMAS_id |-> best.LAMAS_id,
   best_LAMAS_name |-> best.LAMAS_name, best_score |-> best.weighted_score,
   all_candidates |-> None]

\* mutant: a NEEDS_AI row that drops its provisional best candidate
NeedsAIRow_without_best(osm_id, ai_candidates) ==
  [osm_id |-> osm_id, status |-> "NEEDS_AI", best_LAMAS_id |-> None,
   best_LAMAS_name |-> None, best_score |-> ai_candidates[1].weighted_score,
   all_candidates |-> [k \in 1..Len(ai_candidates) |->
                         [ID |-> ai_candidates[k].LAMAS_id,
                          Name |-> ai_candidates[k].LAMAS_name,
                          Score |-> ai_candidates[k].weighted_score]]]

\* The candidate list is the text "ID: <id>, Name: '<name>' (Score: <score>)",
\* one line per candidate; it is kept here as the sequence of its lines' fields.
NeedsAIRow(osm_id, ai_candidates) ==
  [osm_id |-> osm_id, status |-> "NEEDS_AI",
   best_LAMAS_id |-> ai_candidates[1].LAMAS_id,
   best_LAMAS_name |-> ai_candidates[1].LAMAS_name,
   best_score |-> ai_candidates[1].weighted_score,
   all_candidates |-> [k \in 1..Len(ai_candidates) |->
                         [ID |-> ai_candidates[k].LAMAS_id,
                          Name |-> ai_candidates[k].LAMAS_name,
                          Score |-> ai_candidates[k].weighted_score]]]

\* scores of the Hebrew name (tried first)
HebrewScores(osm_row, df) ==
  IF Truthy(osm_row.he) THEN calculate_scores(osm_row.he, LamasSubset(df, osm_row.city))
  ELSE <<>>

\* mutant: no name is scored after the Hebrew one
FallbackNames_none(osm_row) == {}

\* the other normalized_* columns that are not null, as a set
FallbackNames(osm_row) == {osm_row.name, osm_row.original} \ {None}

RECURSIVE ScoresOfNames(_, _)
ScoresOfNames(names, lamas_subset) ==
  IF Len(names) = 0 THEN <<>>
  ELSE calculate_scores(names[1], lamas_subset) \o ScoresOfNames(Tail(names), lamas_subset)

\* all_scores after the fallback loop.  The loop runs over a Python set, whose
\* order is arbitrary; the order of all_scores only matters to the sort, which
\* already leaves the order of equal scores open.
AllScores(osm_row, df) ==
  HebrewScores(osm_row, df)
    \o ScoresOfNames(SetToSeq(FallbackNames(osm_row)), LamasSubset(df, osm_row.city))

\* classification of a sorted, de-duplicated score table
ClassifyScores(osm_id, scores_df) ==
  LET IsConf(e) == is_confident(e.weighted_score)
      InBand(e) == in_ai_band(e.weighted_score)
      confident_match == SelectSeq(scores_df, IsConf)
      ai_candidates == Head5(SelectSeq(scores_df, InBand))
  IN IF Len(confident_match) > 0 THEN ConfidentRow(osm_id, confident_match[1])
     ELSE IF Len(ai_candidates) > 0 THEN NeedsAIRow(osm_id, ai_candidates)
     ELSE MissingRow(osm_id, scores_df[1].weighted_score)

\* One iteration of the loop of find_fuzzy_candidates: the rows it can append
\* for osm_row (more than one only when equal scores leave the sort open).
find_fuzzy_candidates_row(osm_row, df) ==
  LET lamas_subset == LamasSubset(df, osm_row.city)
      hebrew_scores == HebrewScores(osm_row, df)
      IsConf(e) == is_confident(e.weighted_score)
      confident_hebrew_match == SelectSeq(hebrew_scores, IsConf)
      all_scores == AllScores(osm_row, df)
  IN IF Len(lamas_subset) = 0 THEN {MissingRow(osm_row.osm_id, 0)}
     ELSE IF Len(confident_hebrew_match) > 0
       THEN {ConfidentRow(osm_row.osm_id, FirstMax(confident_hebrew_match))}
     ELSE IF Len(all_scores) = 0 THEN {MissingRow(osm_row.osm_id, 0)}
     ELSE {ClassifyScores(osm_row.osm_id, q) : q \in sort_drop_duplicates(all_scores)}


\* -------------------------------------------------- the arbitrator's reply
\* A JSON object is a record whose fields hold <<>> (key absent) or <<v>>
\* (key present with value v); a text is the sequence of its words.
Get(opt, default) == IF Len(opt) = 0 THEN default ELSE opt[1]

DigitWords == {"101", "202", "1001"}
Texts == { <<"101">>, <<"202">>, <<"None">>, <<"ID:", "101", "or", "202">> }

BodyWithText(t) ==
  [candidates |-> << << [content |-> << [parts |-> << << [text |-> <<t>>] >> >>] >>] >> >>]
BodyNoCandidatesKey == [candidates |-> <<>>]
BodyEmptyCandidates == [candidates |-> << <<>> >>]
BodyEmptyParts ==
  [candidates |-> << << [content |-> << [parts |-> << <<>> >>] >>] >> >>]
BodyNoText ==
  [candidates |-> << << [content |-> << [parts |-> << << [text |-> <<>>] >> >>] >>] >> >>]

Bodies == {BodyWithText(t) : t \in Texts}
            \cup {BodyNoCandidatesKey, BodyEmptyCandidates, BodyEmptyParts, BodyNoText}

\* what one requests.post can end in: an exception of the RequestException
\* family (no connection, an HTTP error status raised by raise_for_status, a
\* body that is not JSON) or a decoded JSON body
RequestExceptions == {"ConnectionError", "HTTPError", "JSONDecodeError"}
HttpOutcomes == [kind : {"exception"}, what : RequestExceptions]
                  \cup [kind : {"json"}, body : Bodies]

\* ''.join(filter(str.isdigit, text))
RECURSIVE filter_isdigit(_)
filter_isdigit(text) ==
  IF Len(text) = 0 THEN ""
  ELSE (IF text[1] \in DigitWords THEN text[1] ELSE "") \o filter_isdigit(Tail(text))

\* result.get('candidates', [{}])[0].get('content', {}).get('parts', [{}])[0]
\*       .get('text', 'None').strip(), then the digit filter.
\* Indexing an empty list raises IndexError, which the except clause
\* (requests.exceptions.RequestException) does not catch.
parse_reply(result) ==
  LET cands == Get(result.candidates, << [content |-> <<>>] >>)
  IN IF Len(cands) = 0 THEN [raised |-> TRUE, value |-> "IndexError"]
     ELSE LET content == Get(cands[1].content, [parts |-> <<>>])
              parts == Get(content.parts, << [text |-> <<>>] >>)
          IN IF Len(parts) = 0 THEN [raised |-> TRUE, value |-> "IndexError"]
             ELSE LET text == Get(parts[1].text, <<"None">>)
                      clean_text == filter_isdigit(text)
                  IN [raised |-> FALSE,
                      value |-> IF clean_text = "" THEN "None" ELSE clean_text]

\* ------------------------------------------------------------------ state
VARIABLES
  use_ai,              \* run_pipeline's parameter
  API_KEY,             \* TRUE iff GEMINI_API_KEY is set and not empty
  osm_gdf,             \* the segments after Step 2
  candidates_df,       \* rows appended by find_fuzzy_candidates
  pc,                  \* position of run_pipeline
  i,                   \* index of the current loop
  attempt,             \* loop variable of get_ai_resolution
  ai_results,          \* (osm_id, ai_LAMAS_id) pairs of Step 5
  ai_calls,            \* osm_id -> number of calls of get_ai_resolution
  final_mapping_df,    \* rows that received a final identifier
  diagnostic_df_full,  \* the diagnostic table
  diagnostics,         \* the summary of Step 6.5
  exc,                 \* the exception that ended the run, or None
  adj_gdf,             \* segments handed to build_adjacency_map
  endpoint_index,      \* endpoint -> list of osm_id
  adjacency_map,       \* osm_id -> list of adjacent osm_id
  adj_pc,              \* position of build_adjacency_map
  adj_i,               \* index of its current loop
  all_scores,          \* find_fuzzy_candidates: score dicts of one segment
  scores_df,           \* find_fuzzy_candidates: sorted, de-duplicated table
  candidate,           \* find_fuzzy_candidates: the row appended for it
  cls_pc,              \* position inside the classification of one segment
  norm_input,          \* argument of normalize_street_name
  norm_once,           \* its result
  norm_twice,          \* the result of normalizing that result
  norm_pc,             \* number of calls made
  ai_candidates,       \* find_fuzzy_candidates: the rows kept for the arbitrator
  all_candidates_str,  \* their text, the all_candidates cell
  lamas_candidates,    \* get_local_ai_resolution: the list parsed from it
  rt_pc,               \* position between writing and parsing
  prompt_gdf,          \* Step 5: the segments (osm_id, city, normalized_name)
  map_of_adjacents,    \* Step 3: osm_id -> adjacent osm_ids
  prompt_candidates,   \* Step 4: the classification rows
  prompt_i,            \* index of the loop over the NEEDS_AI rows
  prompts,             \* the requests handed to get_ai_resolution
  batch_driver,        \* "main" (run_all_settlements) or "run_batch" (BatchProcessor)
  nominatim_lookups,   \* the settlements resolve_settlement was called for, in order
  batch_env,           \* per settlement: what OSM, Nominatim and run_pipeline will answer
  force,               \* run_batch parameter
  batch_pc,            \* position of the driver
  batch_i,             \* index of its loop over the settlements
  pipeline_calls,      \* the calls of run_pipeline made so far
  future_to_settlement, \* settlement index -> state of its future
  pool_broken,         \* TRUE once a worker process has died
  stats,               \* BatchProcessor.stats
  batch_results,       \* BatchProcessor.results
  processed_settlements, \* BatchProcessor.processed_settlements
  geo_gdf,             \* Step 3: the segments (osm_id, geometry)
  geo_map,             \* map_of_adjacents as run_pipeline receives it
  geo_pc,              \* position of run_pipeline around Step 3
  geo_exc,             \* the exception that ended the run, or None
  retry_key,           \* get_ai_resolution: TRUE iff API_KEY is set and not empty
  retry_attempt,       \* its loop variable attempt
  retry_log,           \* the HTTP requests it has made, each with how it ended
  retry_sleeps,        \* the seconds of each time.sleep it has made
  retry_pc,            \* position of the call
  retry_value,         \* what the call returned, or None
  settlement,          \* main: the settlement of the current iteration
  osm_places,          \* the place names check_place_exists_in_osm finds
  variant_i,           \* index of the next name variant to check
  valid_place_name,    \* main: the first variant found, or NoName
  osm_checks,          \* the calls of check_place_exists_in_osm made so far
  place_calls,         \* the place of each call of run_pipeline made so far
  variant_pc           \* position inside the iteration

pipeVars == <<use_ai, API_KEY, osm_gdf, candidates_df, pc, i, attempt, ai_results,
              ai_calls, final_mapping_df, diagnostic_df_full, diagnostics, exc>>
adjVars == <<adj_gdf, endpoint_index, adjacency_map, adj_pc, adj_i>>
clsVars == <<all_scores, scores_df, candidate, cls_pc>>
normVars == <<norm_input, norm_once, norm_twice, norm_pc>>
rtVars == <<ai_candidates, all_candidates_str, lamas_candidates, rt_pc>>
promptVars == <<prompt_gdf, map_of_adjacents, prompt_candidates, prompt_i, prompts>>
batchVars == <<batch_driver, batch_env, nominatim_lookups, force, batch_pc, batch_i, pipeline_calls,
               future_to_settlement, pool_broken, stats, batch_results,
               processed_settlements>>
geoVars == <<geo_gdf, geo_map, geo_pc, geo_exc>>
retryVars == <<retry_key, retry_attempt, retry_log, retry_sleeps, retry_pc, retry_value>>
variantVars == <<settlement, osm_places, variant_i, valid_place_name, osm_checks, place_calls, variant_pc>>
nonPipeVars == <<adjVars, clsVars, normVars, rtVars, promptVars, batchVars, geoVars, retryVars, variantVars>>
nonAdjVars == <<pipeVars, clsVars, normVars, rtVars, promptVars, batchVars, geoVars, retryVars, variantVars>>
nonClsVars == <<pipeVars, adjVars, normVars, rtVars, promptVars, batchVars, geoVars, retryVars, variantVars>>
nonNormVars == <<pipeVars, adjVars, clsVars, rtVars, promptVars, batchVars, geoVars, retryVars, variantVars>>
nonRtVars == <<pipeVars, adjVars, clsVars, normVars, promptVars, batchVars, geoVars, retryVars, variantVars>>
nonPromptVars == <<pipeVars, adjVars, clsVars, normVars, rtVars, batchVars, geoVars, retryVars, variantVars>>
nonBatchVars == <<pipeVars, adjVars, clsVars, normVars, rtVars, promptVars, geoVars, retryVars, variantVars>>
nonGeoVars == <<pipeVars, adjVars, clsVars, normVars, rtVars, promptVars, batchVars, retryVars, variantVars>>
nonRetryVars == <<pipeVars, adjVars, clsVars, normVars, rtVars, promptVars, batchVars, geoVars, variantVars>>
nonVariantVars == <<pipeVars, adjVars, clsVars, normVars, rtVars, promptVars, batchVars, geoVars, retryVars>>
vars == <<pipeVars, adjVars, clsVars, normVars, rtVars, promptVars, batchVars, geoVars, retryVars, variantVars>>

NoDiagnostics == [rev |-> "none"]

\* build_adjacency_map is not running
AdjIdle ==
  /\ adj_gdf = <<>>
  /\ endpoint_index = <<>>
  /\ adjacency_map = <<>>
  /\ adj_pc = "idle"
  /\ adj_i = 0

\* run_pipeline is not running
PipeIdle ==
  /\ use_ai = FALSE
  /\ API_KEY = FALSE
  /\ osm_gdf = <<>>
  /\ candidates_df = <<>>
  /\ pc = "idle"
  /\ i = 0
  /\ attempt = 0
  /\ ai_results = <<>>
  /\ ai_calls = <<>>
  /\ final_mapping_df = <<>>
  /\ diagnostic_df_full = <<>>
  /\ diagnostics = NoDiagnostics
  /\ exc = None

\* no single segment is being classified on its own
ClsIdle ==
  /\ all_scores = <<>>
  /\ scores_df = <<>>
  /\ candidate = None
  /\ cls_pc = "idle"

\* normalize_street_name is not being called
NormIdle ==
  /\ norm_input = NoName
  /\ norm_once = NoName
  /\ norm_twice = NoName
  /\ norm_pc = "idle"

\* no candidate list is being written or parsed
RtIdle ==
  /\ ai_candidates = <<>>
  /\ all_candidates_str = <<>>
  /\ lamas_candidates = <<>>
  /\ rt_pc = "idle"

\* no arbitration request is being built
PromptIdle ==
  /\ prompt_gdf = <<>>
  /\ map_of_adjacents = <<>>
  /\ prompt_candidates = <<>>
  /\ prompt_i = 0
  /\ prompts = <<>>

\* no batch is running
BatchIdle ==
  /\ batch_driver = "none"
  /\ batch_env = <<>>
  /\ nominatim_lookups = <<>>
  /\ force = FALSE
  /\ batch_pc = "idle"
  /\ batch_i = 0
  /\ pipeline_calls = <<>>
  /\ future_to_settlement = <<>>
  /\ pool_broken = FALSE
  /\ stats = <<>>
  /\ batch_results = <<>>
  /\ processed_settlements = {}

\* no run is at Step 3
GeoIdle ==
  /\ geo_gdf = <<>>
  /\ geo_map = <<>>
  /\ geo_pc = "idle"
  /\ geo_exc = None

\* no separate call of get_ai_resolution is under way
RetryIdle ==
  /\ retry_key = FALSE
  /\ retry_attempt = 0
  /\ retry_log = <<>>
  /\ retry_sleeps = <<>>
  /\ retry_pc = "idle"
  /\ retry_value = None

\* main is not inside an iteration
VariantIdle ==
  /\ settlement = <<>>
  /\ osm_places = {}
  /\ variant_i = 0
  /\ valid_place_name = NoName
  /\ osm_checks = <<>>
  /\ place_calls = <<>>
  /\ variant_pc = "idle"

WithId(rows) ==
  [k \in 1..Len(rows) |->
     [osm_id |-> SegId(k), city |-> rows[k].city, he |-> rows[k].he,
      name |-> rows[k].name, original |-> rows[k].original]]

\* run_pipeline at the start of Step 4
Init ==
  /\ use_ai \in BOOLEAN
  /\ API_KEY \in BOOLEAN
  /\ \E n \in 0..MaxSeg : \E rows \in [1..n -> SegmentInputs] : osm_gdf = WithId(rows)
  /\ candidates_df = <<>>
  /\ pc = "step4"
  /\ i = 1
  /\ attempt = 0
  /\ ai_results = <<>>
  /\ ai_calls = [k \in 1..Len(osm_gdf) |-> 0]
  /\ final_mapping_df = <<>>
  /\ diagnostic_df_full = <<>>
  /\ diagnostics = NoDiagnostics
  /\ exc = None
  /\ AdjIdle
  /\ ClsIdle
  /\ NormIdle
  /\ RtIdle
  /\ PromptIdle
  /\ BatchIdle
  /\ GeoIdle
  /\ RetryIdle
  /\ VariantIdle


\* ------------------------------------------- Step 4: find_fuzzy_candidates
\* osm_df.empty: an empty table with the expected columns is returned
FindFuzzyCandidatesEmpty ==
  /\ pc = "step4"
  /\ Len(osm_gdf) = 0
  /\ candidates_df' = <<>>
  /\ pc' = "step5"
  /\ UNCHANGED <<use_ai, API_KEY, osm_gdf, i, attempt, ai_results, ai_calls,
                 final_mapping_df, diagnostic_df_full, diagnostics, exc>>
  /\ UNCHANGED nonPipeVars

\* one iteration of "for _, osm_row in osm_df.iterrows()"; the last one
\* returns the table
FindFuzzyCandidatesRow ==
  /\ pc = "step4"
  /\ i <= Len(osm_gdf)
  /\ \E row \in find_fuzzy_candidates_row(osm_gdf[i], LAMAS_df) :
        candidates_df' = Append(candidates_df, row)
  /\ IF i = Len(osm_gdf) THEN pc' = "step5" /\ i' = 1
                         ELSE pc' = pc /\ i' = i + 1
  /\ UNCHANGED <<use_ai, API_KEY, osm_gdf, attempt, ai_results, ai_calls,
                 final_mapping_df, diagnostic_df_full, diagnostics, exc>>
  /\ UNCHANGED nonPipeVars

\* ------------------------------------------------ Step 5: AI resolution
\* mutant: the status filter is missing
ai_candidates_any_status(cands, gdf) ==
  LET osm_city_label == gdf[1].city
      osm_id_set == {gdf[k].osm_id : k \in {j \in 1..Len(gdf) : gdf[j].city = osm_city_label}}
      Keep(row) == row.osm_id \in osm_id_set
  IN SelectSeq(cands, Keep)

\* NEEDS_AI rows whose segment lies in the settlement of the first segment
ai_candidates_to_process(cands, gdf) ==
  LET osm_city_label == gdf[1].city
      osm_id_set == {gdf[k].osm_id : k \in {j \in 1..Len(gdf) : gdf[j].city = osm_city_label}}
      Keep(row) == row.status = "NEEDS_AI" /\ row.osm_id \in osm_id_set
  IN SelectSeq(cands, Keep)

SegIndex(osm_id) == CHOOSE k \in 1..Len(osm_gdf) : osm_gdf[k].osm_id = osm_id

\* "else: ai_results = []" (AI disabled or no key)
Step5Skip ==
  /\ pc = "step5"
  /\ ~(use_ai /\ API_KEY)
  /\ ai_results' = <<>>
  /\ pc' = "step6"
  /\ UNCHANGED <<use_ai, API_KEY, osm_gdf, candidates_df, i, attempt, ai_calls,
                 final_mapping_df, diagnostic_df_full, diagnostics, exc>>
  /\ UNCHANGED nonPipeVars

\* osm_gdf['city'].iloc[0] on an empty table
Step5Raise ==
  /\ pc = "step5"
  /\ use_ai /\ API_KEY
  /\ Len(osm_gdf) = 0
  /\ pc' = "raised"
  /\ exc' = "IndexError in run_pipeline"
  /\ UNCHANGED <<use_ai, API_KEY, osm_gdf, candidates_df, i, attempt, ai_results,
                 ai_calls, final_mapping_df, diagnostic_df_full, diagnostics>>
  /\ UNCHANGED nonPipeVars

\* the loop over ai_candidates_to_process: the next row's call of
\* get_ai_resolution starts
Step5Call ==
  /\ pc = "step5"
  /\ use_ai /\ API_KEY
  /\ Len(osm_gdf) > 0
  /\ i <= Len(ai_candidates_to_process(candidates_df, osm_gdf))
  /\ LET osm_id == ai_candidates_to_process(candidates_df, osm_gdf)[i].osm_id
     IN ai_calls' = [ai_calls EXCEPT ![SegIndex(osm_id)] = @ + 1]
  /\ attempt' = 0
  /\ pc' = "ai_call"
  /\ UNCHANGED <<use_ai, API_KEY, osm_gdf, candidates_df, i, ai_results,
                 final_mapping_df, diagnostic_df_full, diagnostics, exc>>
  /\ UNCHANGED nonPipeVars

\* the loop is exhausted
Step5Done ==
  /\ pc = "step5"
  /\ use_ai /\ API_KEY
  /\ Len(osm_gdf) > 0
  /\ i > Len(ai_candidates_to_process(candidates_df, osm_gdf))
  /\ pc' = "step6"
  /\ UNCHANGED <<use_ai, API_KEY, osm_gdf, candidates_df, i, attempt, ai_results,
                 ai_calls, final_mapping_df, diagnostic_df_full, diagnostics, exc>>
  /\ UNCHANGED nonPipeVars

\* get_ai_resolution returns v to run_pipeline, which appends the decision
AiReturn(v) ==
  /\ ai_results' = Append(ai_results,
        [osm_id |-> ai_candidates_to_process(candidates_df, osm_gdf)[i].osm_id,
         ai_LAMAS_id |-> v])
  /\ i' = i + 1
  /\ attempt' = 0
  /\ pc' = "step5"
  /\ exc' = exc

\* One pass of "for attempt in range(MAX_RETRIES)" of get_ai_resolution.
GetAiResolutionAttempt ==
  /\ pc = "ai_call"
  /\ \E o \in HttpOutcomes :
       IF ~API_KEY THEN AiReturn("None")
       ELSE IF o.kind = "exception"
         THEN IF attempt < MAX_RETRIES - 1
                THEN /\ attempt' = attempt + 1      \* after time.sleep(2 ** attempt)
                     /\ UNCHANGED <<ai_results, i, pc, exc>>
                ELSE AiReturn("None")
         ELSE LET r == parse_reply(o.body)
              IN IF r.raised
                   THEN /\ pc' = "raised"
                        /\ exc' = r.value \o " in get_ai_resolution"
                        /\ UNCHANGED <<ai_results, i, attempt>>
                   ELSE AiReturn(r.value)
  /\ UNCHANGED <<use_ai, API_KEY, osm_gdf, candidates_df, ai_calls,
                 final_mapping_df, diagnostic_df_full, diagnostics>>
  /\ UNCHANGED nonPipeVars


\* ------------------------------------------------ Step 6: the final merge
\* Series.astype(str): a missing cell (NaN) becomes the text 'nan', None the
\* text 'None'; a string stays as it is
astype_str(v) == IF v = NaN THEN "nan" ELSE IF v = None THEN "None" ELSE v

\* Series.notna()
notna(v) == v # NaN /\ v # None

\* left.merge(right, on='osm_id', how='left'): one row per matching right row,
\* the cells of fill where there is none
RECURSIVE LeftMerge(_, _, _)
LeftMerge(left, right, fill) ==
  IF Len(left) = 0 THEN <<>>
  ELSE LET Match(r) == r.osm_id = left[1].osm_id
           matches == SelectSeq(right, Match)
       IN (IF Len(matches) = 0 THEN << left[1] @@ fill >>
           ELSE [k \in 1..Len(matches) |-> left[1] @@ matches[k]])
          \o LeftMerge(Tail(left), right, fill)

\* mutant: the verdicts are attached by position, not by osm_id
AiDecisionsMerged_by_position(cands, results) ==
  [k \in 1..Len(cands) |->
     cands[k] @@ [ai_LAMAS_id |-> IF k <= Len(results) THEN results[k].ai_LAMAS_id
                                  ELSE NaN]]

\* candidates_df.merge(ai_decisions_df, on='osm_id', how='left')
AiDecisionsMerged(cands, results) == LeftMerge(cands, results, [ai_LAMAS_id |-> NaN])

\* the row filter of final_mapping_df
in_final_mapping(row) ==
  \/ row.status = "CONFIDENT"
  \/ (row.status = "NEEDS_AI" /\ astype_str(row.ai_LAMAS_id) # "None")

\* the final identifier of a row of final_mapping_df
final_id(row) ==
  astype_str(IF row.status = "CONFIDENT" THEN row.best_LAMAS_id ELSE row.ai_LAMAS_id)

FinalMapping(merged) ==
  LET kept == SelectSeq(merged, in_final_mapping)
  IN [k \in 1..Len(kept) |-> [osm_id |-> kept[k].osm_id, final_LAMAS_id |-> final_id(kept[k])]]

\* osm_gdf[...].merge(ai_decisions_merged[diagnostic_cols]).merge(final_mapping_df[...])
DiagnosticFull(gdf, merged, final) ==
  LET osm_cols == [k \in 1..Len(gdf) |->
                     [osm_id |-> gdf[k].osm_id, normalized_name |-> gdf[k].name,
                      city |-> gdf[k].city]]
      diag_cols == [k \in 1..Len(merged) |->
                     [osm_id |-> merged[k].osm_id, status |-> merged[k].status,
                      best_score |-> merged[k].best_score,
                      best_LAMAS_name |-> merged[k].best_LAMAS_name,
                      all_candidates |-> merged[k].all_candidates,
                      ai_LAMAS_id |-> merged[k].ai_LAMAS_id]]
      fill == [status |-> NaN, best_score |-> NaN, best_LAMAS_name |-> NaN,
               all_candidates |-> NaN, ai_LAMAS_id |-> NaN]
  IN LeftMerge(LeftMerge(osm_cols, diag_cols, fill), final, [final_LAMAS_id |-> NaN])

MergeStep ==
  /\ pc = "step6"
  /\ LET merged == AiDecisionsMerged(candidates_df, ai_results)
     IN /\ final_mapping_df' = FinalMapping(merged)
        /\ diagnostic_df_full' = DiagnosticFull(osm_gdf, merged, FinalMapping(merged))
  /\ pc' = "step6_5"
  /\ UNCHANGED <<use_ai, API_KEY, osm_gdf, candidates_df, i, attempt, ai_results,
                 ai_calls, diagnostics, exc>>
  /\ UNCHANGED nonPipeVars

\* --------------------------------------------- Step 6.5: the diagnostics
\* str.replace(r'\.0$', '', regex=True): no identifier of this model ends in
\* ".0" (registry codes and verdicts are digit strings, a missing verdict is
\* 'nan'), so nothing is cut
strip_dot0(id) == id

\* number of rows of a filtered table, and the distinct names of its rows
CountRows(rows) == Len(rows)
NamesOf(rows) == {rows[k].normalized_name : k \in 1..Len(rows)}

\* the identifiers that are the final identifier of some segment
MatchedLamasIds(final_ids) == {strip_dot0(x) : x \in {y \in final_ids : notna(y)}}

\* first row of each identifier, in row order (groupby('LAMAS_id').first())
FirstPerId(rows) ==
  LET IsFirst(k) == \A j \in 1..(k - 1) : rows[j].LAMAS_id # rows[k].LAMAS_id
      idx == {k \in 1..Len(rows) : IsFirst(k)}
      Keep(r) == \E k \in idx : rows[k] = r
  IN SelectSeq(rows, Keep)

NameColumn(rows) == [k \in 1..Len(rows) |-> rows[k].LAMAS_name]

\* The registry names of the model are in alphabetical order row by row, so a
\* column of names kept in row order is the sorted list the code builds.
\* pipeline.py (repository root), lines 325-362
RootDiagnostics(lamas_in_city_df, diag, final, gdf) ==
  LET IsConfident(r) == r.status = "CONFIDENT"
      IsAiResolved(r) == r.status = "NEEDS_AI" /\ notna(r.final_LAMAS_id)
      confident_matches == CountRows(SelectSeq(diag, IsConfident))
      ai_resolved_matches == CountRows(SelectSeq(diag, IsAiResolved))
      matched_lamas_ids ==
        MatchedLamasIds({final[k].final_LAMAS_id : k \in 1..Len(final)})
      Unmatched(r) == r.LAMAS_id \notin matched_lamas_ids
      unmatched_lamas_df == SelectSeq(lamas_in_city_df, Unmatched)
  IN [rev |-> "root",
      total_osm_streets |-> Len(gdf),
      total_lamas_streets |-> Len(lamas_in_city_df),
      confident_matches |-> confident_matches,
      ai_resolved_matches |-> ai_resolved_matches,
      total_matched |-> confident_matches + ai_resolved_matches,
      unmatched_osm_streets |-> Len(gdf) - (confident_matches + ai_resolved_matches),
      unmatched_lamas_count |-> Len(unmatched_lamas_df),
      unmatched_lamas_street_names |-> NameColumn(unmatched_lamas_df)]

\* src/pipeline.py, calculate_diagnostics
calculate_diagnostics(lamas_in_city_df, diag, gdf) ==
  LET IsConfident(r) == r.status = "CONFIDENT"
      IsAiResolved(r) == r.status = "NEEDS_AI" /\ notna(r.final_LAMAS_id)
      HasFinal(r) == notna(r.final_LAMAS_id)
      total_osm_streets == Cardinality({gdf[k].name : k \in 1..Len(gdf)})
      total_matched == Cardinality(NamesOf(SelectSeq(diag, HasFinal)))
      IsStreet(r) == Len(r.LAMAS_id) = STREET_CODE_LEN
      lamas_streets_only == SelectSeq(lamas_in_city_df, IsStreet)
      matched_lamas_ids ==
        MatchedLamasIds({diag[k].final_LAMAS_id : k \in 1..Len(diag)})
      Unmatched(r) == r.LAMAS_id \notin matched_lamas_ids
      unmatched_lamas_df == SelectSeq(lamas_streets_only, Unmatched)
  IN [rev |-> "src",
      total_osm_streets |-> total_osm_streets,
      total_lamas_streets |->
        Cardinality({lamas_streets_only[k].LAMAS_id : k \in 1..Len(lamas_streets_only)}),
      confident_matches |-> Cardinality(NamesOf(SelectSeq(diag, IsConfident))),
      ai_resolved_matches |-> Cardinality(NamesOf(SelectSeq(diag, IsAiResolved))),
      total_matched |-> total_matched,
      unmatched_osm_streets |-> total_osm_streets - total_matched,
      unmatched_lamas_count |->
        Cardinality({unmatched_lamas_df[k].LAMAS_id : k \in 1..Len(unmatched_lamas_df)}),
      unmatched_lamas_street_names |-> NameColumn(FirstPerId(unmatched_lamas_df))]

\* osm_gdf['city'].iloc[0] on an empty table
Step65Raise ==
  /\ pc = "step6_5"
  /\ Len(osm_gdf) = 0
  /\ pc' = "raised"
  /\ exc' = "IndexError in run_pipeline"
  /\ UNCHANGED <<use_ai, API_KEY, osm_gdf, candidates_df, i, attempt, ai_results,
                 ai_calls, final_mapping_df, diagnostic_df_full, diagnostics>>
  /\ UNCHANGED nonPipeVars

\* Step 6.5 as the root pipeline.py computes it; Step 7 (the HTML page, inside
\* try/except) changes nothing
DiagnosticsRoot ==
  /\ pc = "step6_5"
  /\ Len(osm_gdf) > 0
  /\ diagnostics' = RootDiagnostics(LamasSubset(LAMAS_df, osm_gdf[1].city),
                                    diagnostic_df_full, final_mapping_df, osm_gdf)
  /\ pc' = "done"
  /\ UNCHANGED <<use_ai, API_KEY, osm_gdf, candidates_df, i, attempt, ai_results,
                 ai_calls, final_mapping_df, diagnostic_df_full, exc>>
  /\ UNCHANGED nonPipeVars

\* Step 6.5 as src/pipeline.py computes it (calculate_diagnostics)
DiagnosticsSrc ==
  /\ pc = "step6_5"
  /\ Len(osm_gdf) > 0
  /\ diagnostics' = calculate_diagnostics(LamasSubset(LAMAS_df, osm_gdf[1].city),
                                          diagnostic_df_full, osm_gdf)
  /\ pc' = "done"
  /\ UNCHANGED <<use_ai, API_KEY, osm_gdf, candidates_df, i, attempt, ai_results,
                 ai_calls, final_mapping_df, diagnostic_df_full, exc>>
  /\ UNCHANGED nonPipeVars

Next ==
  \/ FindFuzzyCandidatesEmpty
  \/ FindFuzzyCandidatesRow
  \/ Step5Skip
  \/ Step5Raise
  \/ Step5Call
  \/ Step5Done
  \/ GetAiResolutionAttempt
  \/ MergeStep
  \/ Step65Raise
  \/ DiagnosticsRoot
  \/ DiagnosticsSrc

Spec == Init /\ [][Next]_vars

\* ------------------------------------------------- build_adjacency_map
\* A coordinate tuple is one of the numbers 1..NumPoints; a segment is its
\* identifier with geom.coords[0] and geom.coords[-1].
Points == 1..NumPoints
AdjInputs == [start_point : Points, end_point : Points]

AdjWithId(rows) ==
  [k \in 1..Len(rows) |->
     [osm_id |-> SegId(k), start_point |-> rows[k].start_point,
      end_point |-> rows[k].end_point]]

\* all orders in which list(a_set) can enumerate the set
RECURSIVE ListsOf(_)
ListsOf(S) ==
  IF S = {} THEN {<<>>}
  ELSE UNION {{<<x>> \o t : t \in ListsOf(S \ {x})} : x \in S}

Elems(s) == {s[k] : k \in 1..Len(s)}

\* endpoint_index.setdefault(start_key, []).append(osm_id), then the same for
\* end_key
index_row(index, row) ==
  LET with_start == [index EXCEPT ![row.start_point] = Append(@, row.osm_id)]
  IN [with_start EXCEPT ![row.end_point] = Append(@, row.osm_id)]

\* mutant: the "connected_id != osm_id" test is missing
connected_at_with_self(index, key, osm_id) == Elems(index[key])

\* the identifiers one lookup contributes: every connected_id of the key's
\* list other than osm_id
connected_at(index, key, osm_id) == {x \in Elems(index[key]) : x # osm_id}

\* mutant: only the start point is looked up
adjacents_of_start_only(index, row) ==
  connected_at(index, row.start_point, row.osm_id)

\* the set "adjacents" of one row: both lookups
adjacents_of(index, row) ==
  connected_at(index, row.start_point, row.osm_id)
    \cup connected_at(index, row.end_point, row.osm_id)

InitAdj ==
  /\ \E n \in 0..MaxAdjSeg : \E rows \in [1..n -> AdjInputs] : adj_gdf = AdjWithId(rows)
  /\ endpoint_index = [p \in Points |-> <<>>]
  /\ adjacency_map = <<>>
  /\ adj_pc = "start"
  /\ adj_i = 1
  /\ PipeIdle
  /\ ClsIdle
  /\ NormIdle
  /\ RtIdle
  /\ PromptIdle
  /\ BatchIdle
  /\ GeoIdle
  /\ RetryIdle
  /\ VariantIdle

\* "if osm_gdf.empty: return {}"
AdjEmpty ==
  /\ adj_pc = "start"
  /\ Len(adj_gdf) = 0
  /\ adj_pc' = "done"
  /\ UNCHANGED <<adj_gdf, endpoint_index, adjacency_map, adj_i>>
  /\ UNCHANGED nonAdjVars

\* one iteration of the first loop (building endpoint_index)
AdjIndexRow ==
  /\ adj_pc \in {"start", "index"}
  /\ adj_i <= Len(adj_gdf)
  /\ endpoint_index' = index_row(endpoint_index, adj_gdf[adj_i])
  /\ IF adj_i = Len(adj_gdf) THEN adj_pc' = "resolve" /\ adj_i' = 1
                             ELSE adj_pc' = "index" /\ adj_i' = adj_i + 1
  /\ UNCHANGED <<adj_gdf, adjacency_map>>
  /\ UNCHANGED nonAdjVars

\* one iteration of the second loop (filling adjacency_map); the last one
\* returns the map
AdjResolveRow ==
  /\ adj_pc = "resolve"
  /\ adj_i <= Len(adj_gdf)
  /\ \E lst \in ListsOf(adjacents_of(endpoint_index, adj_gdf[adj_i])) :
       adjacency_map' = (adj_gdf[adj_i].osm_id :> lst) @@ adjacency_map
  /\ IF adj_i = Len(adj_gdf) THEN adj_pc' = "done" /\ adj_i' = adj_i
                             ELSE adj_pc' = adj_pc /\ adj_i' = adj_i + 1
  /\ UNCHANGED <<adj_gdf, endpoint_index>>
  /\ UNCHANGED nonAdjVars

NextAdj ==
  \/ AdjEmpty
  \/ AdjIndexRow
  \/ AdjResolveRow

SpecAdj == InitAdj /\ [][NextAdj]_vars


\* --------------------------- find_fuzzy_candidates on one score table
\* The classification part of one loop iteration (from "if not all_scores"
\* on), run on score tables that hold more identifiers than the list keeps.
CandIds == <<"101", "102", "103", "104", "105", "106", "107", "108">>

\* the blended scores (times 10) a registry entry can get: one below the
\* floor and one inside the band; neighbouring entries share the band value,
\* the first entry sits on the floor (80.0) and the last ones just below the
\* CONFIDENT cut-off (89.9)
BelowFloor == 799
BandScore(k) == 800 + 33 * (k \div 2)
DupScores == {799, 866}

ScoreEntry(k, score, source) ==
  [LAMAS_id |-> CandIds[k], LAMAS_name |-> "N" \o CandIds[k],
   weighted_score |-> score, match_source |-> source]

\* all_scores of a segment with n registry entries scored for one name, and
\* possibly the first entry scored again for a second name
ScoreTables(n) ==
  LET base == {[k \in 1..n |->
                  ScoreEntry(k, IF f[k] THEN BandScore(k) ELSE BelowFloor, "name")] :
                 f \in [1..n -> BOOLEAN]}
      dups == IF n = 0 THEN {<<>>}
              ELSE {<<>>} \cup {<<ScoreEntry(1, s, "original")>> : s \in DupScores}
  IN {b \o d : b \in base, d \in dups}

InitClassify ==
  /\ \E n \in 0..MaxCand : all_scores \in ScoreTables(n)
  /\ scores_df = <<>>
  /\ candidate = None
  /\ cls_pc = "scored"
  /\ PipeIdle
  /\ AdjIdle
  /\ NormIdle
  /\ RtIdle
  /\ PromptIdle
  /\ BatchIdle
  /\ GeoIdle
  /\ RetryIdle
  /\ VariantIdle

\* "if not all_scores": MISSING with best_score 0
ClassifyNoScores ==
  /\ cls_pc = "scored"
  /\ Len(all_scores) = 0
  /\ candidate' = MissingRow("s1", 0)
  /\ cls_pc' = "done"
  /\ UNCHANGED <<all_scores, scores_df>>
  /\ UNCHANGED nonClsVars

\* scores_df = DataFrame(all_scores).sort_values(...).drop_duplicates(...)
SortScores ==
  /\ cls_pc = "scored"
  /\ Len(all_scores) > 0
  /\ scores_df' \in sort_drop_duplicates(all_scores)
  /\ cls_pc' = "sorted"
  /\ UNCHANGED <<all_scores, candidate>>
  /\ UNCHANGED nonClsVars

\* the three-way classification of the sorted table
ClassifyRow ==
  /\ cls_pc = "sorted"
  /\ candidate' = ClassifyScores("s1", scores_df)
  /\ cls_pc' = "done"
  /\ UNCHANGED <<all_scores, scores_df>>
  /\ UNCHANGED nonClsVars

NextClassify ==
  \/ ClassifyNoScores
  \/ SortScores
  \/ ClassifyRow

SpecClassify == InitClassify /\ [][NextClassify]_vars

\* ------------------------------------------------ normalize_street_name
\* A name is a sequence of characters.  The Hebrew letters are written with
\* Latin capitals: S D = shin dalet (the short form of boulevard),
\* S D R W T = its full form; R H = resh het (street), R H W B = its full
\* form; K Y = kaf yod (square), K Y K R = its full form; A = any other
\* letter.
WordChars == {"S", "D", "R", "W", "T", "H", "B", "K", "Y", "A"}

\* the replacements dict, in its insertion order: (short form, full form)
replacements ==
  << [old |-> <<"S", "D">>, new |-> <<"S", "D", "R", "W", "T">>],
     [old |-> <<"R", "H">>, new |-> <<"R", "H", "W", "B">>],
     [old |-> <<"K", "Y">>, new |-> <<"K", "Y", "K", "R">>] >>

\* the pieces input names are assembled from: single characters, the short
\* forms, a short form with its apostrophe and two full forms
NamePieces ==
  { <<"S">>, <<"D">>, <<"A">>, <<"'">>, <<".">>, <<"-">>, <<" ">>,
    <<"R", "H">>, <<"K", "Y">>, <<"R", "H", "'">>,
    <<"R", "H", "W", "B">>, <<"S", "D", "R", "W", "T">> }

RECURSIVE Concat(_)
Concat(ps) == IF Len(ps) = 0 THEN <<>> ELSE Head(ps) \o Concat(Tail(ps))

NameInputs == UNION {{Concat(ps) : ps \in [1..n -> NamePieces]} : n \in 0..MaxPieces}

\* regex \w at position q of s (FALSE outside the string)
IsWordAt(s, q) == q >= 1 /\ q <= Len(s) /\ s[q] \in WordChars

\* regex \b between s[q-1] and s[q]
boundary(s, q) == IsWordAt(s, q - 1) # IsWordAt(s, q)

\* mutant: a match that does not ask for the closing \b
match_len_open_end(s, p, old) ==
  IF boundary(s, p) /\ p + Len(old) - 1 <= Len(s)
       /\ SubSeq(s, p, p + Len(old) - 1) = old
  THEN LET q == p + Len(old)
       IN IF q <= Len(s) /\ s[q] \in {"'", "."} THEN Len(old) + 1 ELSE Len(old)
  ELSE 0

\* length of the match of  \b<old>['\.]?\b  that starts at position p, or 0:
\* the optional mark is taken when a \b follows it, otherwise the match ends
\* after the letters when a \b follows them
match_len(s, p, old) ==
  IF boundary(s, p) /\ p + Len(old) - 1 <= Len(s)
       /\ SubSeq(s, p, p + Len(old) - 1) = old
  THEN LET q == p + Len(old)
       IN IF q <= Len(s) /\ s[q] \in {"'", "."} /\ boundary(s, q + 1)
            THEN Len(old) + 1
          ELSE IF boundary(s, q) THEN Len(old)
          ELSE 0
  ELSE 0

\* re.sub(old, new, name): leftmost matches, not overlapping
RECURSIVE re_sub_from(_, _, _)
re_sub_from(s, p, r) ==
  IF p > Len(s) THEN <<>>
  ELSE LET n == match_len(s, p, r.old)
       IN IF n > 0 THEN r.new \o re_sub_from(s, p + n, r)
          ELSE <<s[p]>> \o re_sub_from(s, p + 1, r)

\* "for old, new in replacements.items(): name = re.sub(old, new, name)"
RECURSIVE expand_abbreviations(_, _)
expand_abbreviations(s, k) ==
  IF k > Len(replacements) THEN s
  ELSE expand_abbreviations(re_sub_from(s, 1, replacements[k]), k + 1)

\* str.strip() for the only whitespace character of the alphabet
RECURSIVE lstrip(_)
lstrip(s) == IF Len(s) > 0 /\ s[1] = " " THEN lstrip(Tail(s)) ELSE s
RECURSIVE rstrip(_)
rstrip(s) ==
  IF Len(s) > 0 /\ s[Len(s)] = " " THEN rstrip(SubSeq(s, 1, Len(s) - 1)) ELSE s
strip(s) == rstrip(lstrip(s))

\* name.replace("'", "")
remove_apostrophes(s) == LET Keep(c) == c # "'" IN SelectSeq(s, Keep)

\* re.sub(r'[.,-]', ' ', name)
punctuation_to_space(s) ==
  [k \in 1..Len(s) |-> IF s[k] \in {".", ",", "-"} THEN " " ELSE s[k]]

\* re.sub(r'\s+', ' ', name)
RECURSIVE collapse_spaces(_)
collapse_spaces(s) ==
  IF Len(s) = 0 THEN <<>>
  ELSE IF s[1] = " " /\ Len(s) > 1 /\ s[2] = " " THEN collapse_spaces(Tail(s))
  ELSE <<s[1]>> \o collapse_spaces(Tail(s))

\* steps 2 and 3 of the function: apostrophes, punctuation, spaces
clean_punctuation(s) ==
  strip(collapse_spaces(punctuation_to_space(remove_apostrophes(s))))

normalize_street_name(name) ==
  IF name = NoName THEN NoName
  ELSE clean_punctuation(expand_abbreviations(strip(name), 1))

InitNormalize ==
  /\ norm_input \in NameInputs \cup {NoName}
  /\ norm_once = NoName
  /\ norm_twice = NoName
  /\ norm_pc = "start"
  /\ PipeIdle
  /\ AdjIdle
  /\ ClsIdle
  /\ RtIdle
  /\ PromptIdle
  /\ BatchIdle
  /\ GeoIdle
  /\ RetryIdle
  /\ VariantIdle

\* first call
NormalizeOnce ==
  /\ norm_pc = "start"
  /\ norm_once' = normalize_street_name(norm_input)
  /\ norm_pc' = "once"
  /\ UNCHANGED <<norm_input, norm_twice>>
  /\ UNCHANGED nonNormVars

\* second call, on the result of the first
NormalizeTwice ==
  /\ norm_pc = "once"
  /\ norm_twice' = normalize_street_name(norm_once)
  /\ norm_pc' = "twice"
  /\ UNCHANGED <<norm_input, norm_once>>
  /\ UNCHANGED nonNormVars

NextNormalize ==
  \/ NormalizeOnce
  \/ NormalizeTwice

SpecNormalize == InitNormalize /\ [][NextNormalize]_vars

\* ------------------------------- the candidate list as text, and back
\* The text is a sequence of tokens: the characters of identifiers, names
\* and scores, and the words "ID:", "Name:", "Score:" of the format.
Digits == {"0", "1", "2", "3", "4", "5", "6", "7", "8", "9"}
Quotes == {"'", "\""}
NameChars == {"a"} \cup Quotes

\* registry names of 1..MaxNameLen characters
RegistryNames == UNION {[1..n -> NameChars] : n \in 1..MaxNameLen}

\* identifier and score of the k-th candidate (the score is already text,
\* as "{:.2f}" writes it)
ListId(k) == <<"1", "0", CHOOSE d \in Digits : d = (<<"1", "2", "3", "4">>)[k]>>
ListScore(k) == <<"8", (<<"9", "7", "5", "3">>)[k], ".", "5", "0">>

\* f"ID: {LAMAS_id}, Name: '{LAMAS_name}' (Score: {weighted_score:.2f})"
format_candidate(r) ==
  <<"ID:", " ">> \o r.LAMAS_id \o <<",", " ", "Name:", " ", "'">> \o r.LAMAS_name
    \o <<"'", " ", "(", "Score:", " ">> \o r.weighted_score \o <<")">>

\* "\n".join(candidate_list)
RECURSIVE join_lines(_)
join_lines(ls) ==
  IF Len(ls) = 0 THEN <<>>
  ELSE IF Len(ls) = 1 THEN ls[1]
  ELSE ls[1] \o <<"\n">> \o join_lines(Tail(ls))

\* first position of token w in line at or after p, or 0
find_token(line, w, p) ==
  IF \E at \in p..Len(line) : line[at] = w
    THEN CHOOSE at \in p..Len(line) :
           line[at] = w /\ \A before \in p..(at - 1) : line[before] # w
  ELSE 0

\* str.split('\n')
RECURSIVE split_lines(_)
split_lines(text) ==
  LET p == find_token(text, "\n", 1)
  IN IF p = 0 THEN <<text>>
     ELSE <<SubSeq(text, 1, p - 1)>> \o split_lines(SubSeq(text, p + 1, Len(text)))

\* position after the run of \s that starts at p
RECURSIVE skip_spaces(_, _)
skip_spaces(line, p) ==
  IF p <= Len(line) /\ line[p] = " " THEN skip_spaces(line, p + 1) ELSE p

\* the longest run of tokens of the set chars that starts at p
RECURSIVE run_of(_, _, _)
run_of(line, p, chars) ==
  IF p <= Len(line) /\ line[p] \in chars THEN <<line[p]>> \o run_of(line, p + 1, chars)
  ELSE <<>>

\* the longest run of tokens that are not quotes, from p
RECURSIVE run_to_quote(_, _)
run_to_quote(line, p) ==
  IF p <= Len(line) /\ line[p] \notin Quotes THEN <<line[p]>> \o run_to_quote(line, p + 1)
  ELSE <<>>

\* re.search(r'ID:\s*(\d+)', line): group 1, or None
id_match(line) ==
  LET p == find_token(line, "ID:", 1)
      q == skip_spaces(line, p + 1)
  IN IF p = 0 \/ Len(run_of(line, q, Digits)) = 0 THEN None
     ELSE run_of(line, q, Digits)

\* re.search(r"Name:\s*['\"]([^'\"]+)['\"]", line): group 1, or None.  The
\* group is the longest run without a quote after the opening quote; it must
\* not be empty and a quote must follow it.
name_match(line) ==
  LET p == find_token(line, "Name:", 1)
      q == skip_spaces(line, p + 1)
      g == run_to_quote(line, q + 1)
  IN IF p = 0 \/ q > Len(line) \/ line[q] \notin Quotes THEN None
     ELSE IF Len(g) = 0 \/ q + Len(g) + 1 > Len(line) THEN None
     ELSE g

\* re.search(r'Score:\s*([\d.]+)', line): group 1, or None
score_match(line) ==
  LET p == find_token(line, "Score:", 1)
      q == skip_spaces(line, p + 1)
  IN IF p = 0 \/ Len(run_of(line, q, Digits \cup {"."})) = 0 THEN None
     ELSE run_of(line, q, Digits \cup {"."})

\* the loop over candidate_lines
RECURSIVE parse_candidates(_)
parse_candidates(lines) ==
  IF Len(lines) = 0 THEN <<>>
  ELSE LET line == lines[1]
       IN (IF id_match(line) # None /\ name_match(line) # None
             THEN << [id |-> id_match(line), name |-> name_match(line),
                      score |-> IF score_match(line) # None THEN score_match(line)
                                ELSE <<"0", ".", "0">>] >>
           ELSE <<>>)
          \o parse_candidates(Tail(lines))

InitRoundTrip ==
  /\ \E n \in 1..MaxList : \E names \in [1..n -> RegistryNames] :
       ai_candidates = [k \in 1..n |->
                          [LAMAS_id |-> ListId(k), LAMAS_name |-> names[k],
                           weighted_score |-> ListScore(k)]]
  /\ all_candidates_str = <<>>
  /\ lamas_candidates = <<>>
  /\ rt_pc = "kept"
  /\ PipeIdle
  /\ AdjIdle
  /\ ClsIdle
  /\ NormIdle
  /\ PromptIdle
  /\ BatchIdle
  /\ GeoIdle
  /\ RetryIdle
  /\ VariantIdle

\* find_fuzzy_candidates writes the all_candidates cell
SerializeCandidates ==
  /\ rt_pc = "kept"
  /\ all_candidates_str' =
       join_lines([k \in 1..Len(ai_candidates) |-> format_candidate(ai_candidates[k])])
  /\ rt_pc' = "written"
  /\ UNCHANGED <<ai_candidates, lamas_candidates>>
  /\ UNCHANGED nonRtVars

\* get_local_ai_resolution parses the cell
ParseCandidates ==
  /\ rt_pc = "written"
  /\ lamas_candidates' = parse_candidates(split_lines(all_candidates_str))
  /\ rt_pc' = "parsed"
  /\ UNCHANGED <<ai_candidates, all_candidates_str>>
  /\ UNCHANGED nonRtVars

NextRoundTrip ==
  \/ SerializeCandidates
  \/ ParseCandidates

SpecRoundTrip == InitRoundTrip /\ [][NextRoundTrip]_vars

\* --------------------------------------- Step 5: the arbitration request
\* A request is the sequence of the pieces of its text: the literal parts of
\* the f-string and the values put between them.
PromptCities == {"c1", "c2"}
PromptName(k) == (<<"name_s1", "name_s2", "name_s3", "name_s4">>)[k]
PromptCandidates(k) == (<<"cands_s1", "cands_s2", "cands_s3", "cands_s4">>)[k]

\* the adjacency maps build_adjacency_map can return for n segments: every
\* symmetric relation without self-pairs (the request reads a list only
\* through isin, so the order inside a list plays no part)
PromptPairs(n) == {p \in (1..n) \X (1..n) : p[1] < p[2]}
AdjacencyOf(n, rel) ==
  [k \in 1..n |->
     SetToSeq({SegId(j) : j \in {x \in 1..n : <<x, k>> \in rel \/ <<k, x>> \in rel}})]

\* osm_gdf[osm_gdf['city'] == osm_gdf['city'].iloc[0]]
in_city(gdf) ==
  LET osm_city_label == gdf[1].city
      Keep(row) == row.city = osm_city_label
  IN SelectSeq(gdf, Keep)

\* the rows of the loop: NEEDS_AI and in the settlement of the first segment
prompt_rows(cands, gdf) ==
  LET osm_id_set == {in_city(gdf)[k].osm_id : k \in 1..Len(in_city(gdf))}
      Keep(row) == row.status = "NEEDS_AI" /\ row.osm_id \in osm_id_set
  IN SelectSeq(cands, Keep)

\* ', '.join(names)
RECURSIVE join_comma(_)
join_comma(names) ==
  IF Len(names) = 0 THEN <<>>
  ELSE IF Len(names) = 1 THEN names
  ELSE <<names[1], ", ">> \o join_comma(Tail(names))

\* osm_gdf_in_city[osm_gdf_in_city['osm_id'].isin(adjacent_osm_ids)]
\*   ['normalized_name'].tolist()
adjacent_names_of(gdf, adjacent_osm_ids) ==
  LET Keep(row) == row.osm_id \in Elems(adjacent_osm_ids)
      rows == SelectSeq(in_city(gdf), Keep)
  IN [k \in 1..Len(rows) |-> rows[k].normalized_name]

\* the f-string of run_pipeline
build_prompt(row, gdf, map) ==
  LET osm_id == row.osm_id
      k == CHOOSE j \in 1..Len(in_city(gdf)) : in_city(gdf)[j].osm_id = osm_id
      osm_street_name == in_city(gdf)[k].normalized_name
      g == CHOOSE j \in 1..Len(gdf) : gdf[j].osm_id = osm_id
      adjacent_names == adjacent_names_of(gdf, map[g])
  IN <<"OSM Street Name: '", osm_street_name, "'. Adjacent Streets: ">>
       \o (IF Len(adjacent_names) > 0 THEN join_comma(adjacent_names) ELSE <<"None">>)
       \o <<". LAMAS Candidates: ", row.all_candidates,
            ". Choose the best LAMAS ID (number only or 'None').">>

InitPrompt ==
  /\ \E n \in 1..MaxPromptSeg :
       /\ \E cities \in [1..n -> PromptCities] :
            prompt_gdf = [k \in 1..n |->
                            [osm_id |-> SegId(k), city |-> cities[k],
                             normalized_name |-> PromptName(k)]]
       /\ \E rel \in SUBSET PromptPairs(n) : map_of_adjacents = AdjacencyOf(n, rel)
       /\ \E st \in [1..n -> {"NEEDS_AI", "CONFIDENT"}] :
            prompt_candidates =
              [k \in 1..n |->
                 [osm_id |-> SegId(k), status |-> st[k],
                  all_candidates |-> IF st[k] = "NEEDS_AI" THEN PromptCandidates(k)
                                     ELSE None]]
  /\ prompt_i = 1
  /\ prompts = <<>>
  /\ PipeIdle
  /\ AdjIdle
  /\ ClsIdle
  /\ NormIdle
  /\ RtIdle
  /\ BatchIdle
  /\ GeoIdle
  /\ RetryIdle
  /\ VariantIdle

\* one iteration of "for _, row in ai_candidates_to_process.iterrows()": the
\* request is built and handed to get_ai_resolution
BuildPrompt ==
  /\ prompt_i >= 1
  /\ prompt_i <= Len(prompt_rows(prompt_candidates, prompt_gdf))
  /\ LET row == prompt_rows(prompt_candidates, prompt_gdf)[prompt_i]
     IN prompts' = Append(prompts,
                     [osm_id |-> row.osm_id,
                      prompt |-> build_prompt(row, prompt_gdf, map_of_adjacents)])
  /\ prompt_i' = prompt_i + 1
  /\ UNCHANGED <<prompt_gdf, map_of_adjacents, prompt_candidates>>
  /\ UNCHANGED nonPromptVars

NextPrompt ==
  \/ BuildPrompt

SpecPrompt == InitPrompt /\ [][NextPrompt]_vars

\* ------------------------------------------------- batches of settlements
\* settlements = sorted(unique city labels)
SettlementName(k) == (<<"A", "B", "C", "D", "E">>)[k]

\* What the outside world answers for one settlement.  exists: some name
\* variant is found by check_place_exists_in_osm; outcome: how the body of
\* run_pipeline ends; processed: the settlement is in processed_settlements
\* when the batch starts; resolve: the status resolve_settlement returns.
PipelineOutcomes == {"raises", "returns_early", "completes"}
MainProfiles ==
  [exists : {TRUE}, outcome : PipelineOutcomes, processed : {FALSE},
   resolve : {"ready_for_pipeline"}]
    \cup [exists : {FALSE}, outcome : {"completes"}, processed : {FALSE},
          resolve : {"ready_for_pipeline"}]
BatchProfiles ==
  [exists : {TRUE}, outcome : {"completes"}, processed : BOOLEAN,
   resolve : {"failed_nominatim", "failed_validation", "ready_for_pipeline"}]

\* def run_pipeline(place, force_refresh, use_ai); it has no return value
run_pipeline_parameters == {"place", "force_refresh", "use_ai"}
call_run_pipeline(kwargs, outcome) ==
  IF ~(kwargs \subseteq run_pipeline_parameters)
    THEN [raised |-> "TypeError", value |-> None]
  ELSE IF outcome = "raises" THEN [raised |-> "Exception", value |-> None]
  ELSE [raised |-> None, value |-> None]

\* mutant: main without its try/except around run_pipeline
after_pipeline_call_uncaught(r) == IF r.raised # None THEN "raised" ELSE "loop"

\* main: "except Exception" prints and the loop goes on
after_pipeline_call(r) == "loop"

\* worker_wrapper: the status of the result dictionary
worker_status(r) ==
  IF r.raised # None THEN "failed_pipeline"
  ELSE IF r.value = TRUE THEN "success"
  ELSE "failed_pipeline"

\* mutant: a worker exception counted as a validation failure
collect_counter_exception_elsewhere(status) ==
  IF status = "success" THEN "successful"
  ELSE IF status = "exception" THEN "failed_validation"
  ELSE "failed_pipeline"

\* run_batch, collecting: the counter a completed future adds to ('success'
\* counts as successful; any other status, and an exception of
\* future.result(), as failed_pipeline)
collect_counter(status) ==
  IF status = "success" THEN "successful" ELSE "failed_pipeline"

ZeroStats ==
  [total_settlements |-> 0, matched |-> 0, failed_nominatim |-> 0,
   failed_validation |-> 0, failed_pipeline |-> 0,
   skipped_already_processed |-> 0, successful |-> 0]

NumSettlements == Len(batch_env)

\* mutant: the processed set is not consulted
already_processed_ignored(k) == FALSE

\* "not force and settlement in self.processed_settlements"
already_processed(k) == ~force /\ SettlementName(k) \in processed_settlements

InitBatch ==
  /\ batch_driver \in {"main", "run_batch"}
  /\ \E n \in 1..MaxSettlements :
       batch_env \in [1..n -> IF batch_driver = "main" THEN MainProfiles
                              ELSE BatchProfiles]
  /\ force \in (IF batch_driver = "main" THEN {FALSE} ELSE BOOLEAN)
  /\ batch_pc = "loop"
  /\ batch_i = 1
  /\ nominatim_lookups = <<>>
  /\ pipeline_calls = <<>>
  /\ future_to_settlement = [k \in 1..NumSettlements |-> "none"]
  /\ pool_broken = FALSE
  /\ stats = [ZeroStats EXCEPT !.total_settlements =
                IF batch_driver = "main" THEN 0 ELSE NumSettlements]
  /\ batch_results = <<>>
  /\ processed_settlements =
       {SettlementName(k) : k \in {j \in 1..NumSettlements : batch_env[j].processed}}
  /\ PipeIdle
  /\ AdjIdle
  /\ ClsIdle
  /\ NormIdle
  /\ RtIdle
  /\ PromptIdle
  /\ GeoIdle
  /\ RetryIdle
  /\ VariantIdle

\* ---- run_all_settlements.main
\* one iteration of "for i, settlement in enumerate(settlements)"
MainIterate ==
  /\ batch_driver = "main"
  /\ batch_pc = "loop"
  /\ batch_i <= NumSettlements
  /\ LET e == batch_env[batch_i]
         r == call_run_pipeline({"place", "force_refresh", "use_ai"}, e.outcome)
     IN IF ~e.exists
          THEN /\ pipeline_calls' = pipeline_calls
               /\ batch_pc' = "loop"
          ELSE /\ pipeline_calls' =
                    Append(pipeline_calls, [settlement |-> batch_i, raised |-> r.raised])
               /\ batch_pc' = after_pipeline_call(r)
  /\ batch_i' = batch_i + 1
  /\ UNCHANGED <<batch_driver, batch_env, nominatim_lookups, force, future_to_settlement, pool_broken,
                 stats, batch_results, processed_settlements>>
  /\ UNCHANGED nonBatchVars

\* the loop is exhausted and main returns
MainDone ==
  /\ batch_driver = "main"
  /\ batch_pc = "loop"
  /\ batch_i > NumSettlements
  /\ batch_pc' = "done"
  /\ UNCHANGED <<batch_driver, batch_env, nominatim_lookups, force, batch_i, pipeline_calls,
                 future_to_settlement, pool_broken, stats, batch_results,
                 processed_settlements>>
  /\ UNCHANGED nonBatchVars

\* ---- BatchProcessor.run_batch
\* an iteration that finds the settlement already processed
BatchSkip ==
  /\ batch_driver = "run_batch"
  /\ batch_pc = "loop"
  /\ batch_i <= NumSettlements
  /\ already_processed(batch_i)
  /\ stats' = [stats EXCEPT !.skipped_already_processed = @ + 1]
  /\ batch_results' =
       Append(batch_results, [settlement |-> batch_i, status |-> "skipped"])
  /\ batch_i' = batch_i + 1
  /\ UNCHANGED <<batch_driver, batch_env, nominatim_lookups, force, batch_pc, pipeline_calls,
                 future_to_settlement, pool_broken, processed_settlements>>
  /\ UNCHANGED nonBatchVars

\* an iteration whose resolve_settlement does not return ready_for_pipeline
BatchResolveFailed ==
  /\ batch_driver = "run_batch"
  /\ batch_pc = "loop"
  /\ batch_i <= NumSettlements
  /\ ~already_processed(batch_i)
  /\ batch_env[batch_i].resolve # "ready_for_pipeline"
  /\ nominatim_lookups' = Append(nominatim_lookups, batch_i)
  /\ batch_results' = Append(batch_results, [settlement |-> batch_i,
                                 status |-> batch_env[batch_i].resolve])
  /\ stats' = IF batch_env[batch_i].resolve = "failed_nominatim"
                THEN [stats EXCEPT !.failed_nominatim = @ + 1]
              ELSE [stats EXCEPT !.failed_validation = @ + 1]
  /\ batch_i' = batch_i + 1
  /\ UNCHANGED <<batch_driver, batch_env, force, batch_pc, pipeline_calls,
                 future_to_settlement, pool_broken, processed_settlements>>
  /\ UNCHANGED nonBatchVars

\* an iteration that submits the pipeline task; executor.submit raises
\* BrokenProcessPool once a worker process has died
BatchSubmit ==
  /\ batch_driver = "run_batch"
  /\ batch_pc = "loop"
  /\ batch_i <= NumSettlements
  /\ ~already_processed(batch_i)
  /\ batch_env[batch_i].resolve = "ready_for_pipeline"
  /\ nominatim_lookups' = Append(nominatim_lookups, batch_i)
  /\ stats' = [stats EXCEPT !.matched = @ + 1]
  /\ IF pool_broken
       THEN /\ batch_pc' = "raised"
            /\ UNCHANGED <<future_to_settlement, batch_i>>
       ELSE /\ future_to_settlement' =
                 [future_to_settlement EXCEPT ![batch_i] = "pending"]
            /\ batch_i' = batch_i + 1
            /\ batch_pc' = batch_pc
  /\ UNCHANGED <<batch_driver, batch_env, force, pipeline_calls, pool_broken,
                 batch_results, processed_settlements>>
  /\ UNCHANGED nonBatchVars

\* the for loop ends; run_batch starts to collect
BatchLoopEnd ==
  /\ batch_driver = "run_batch"
  /\ batch_pc = "loop"
  /\ batch_i > NumSettlements
  /\ batch_pc' = "collect"
  /\ UNCHANGED <<batch_driver, batch_env, nominatim_lookups, force, batch_i, pipeline_calls,
                 future_to_settlement, pool_broken, stats, batch_results,
                 processed_settlements>>
  /\ UNCHANGED nonBatchVars

\* worker_wrapper runs in a worker process for a submitted task
WorkerWrapper ==
  /\ batch_driver = "run_batch"
  /\ batch_pc \in {"loop", "collect"}
  /\ \E k \in 1..NumSettlements :
       /\ future_to_settlement[k] = "pending"
       /\ LET r == call_run_pipeline({"place", "force_refresh", "use_ai", "use_local_ai"},
                                     batch_env[k].outcome)
          IN /\ pipeline_calls' =
                  Append(pipeline_calls, [settlement |-> k, raised |-> r.raised])
             /\ future_to_settlement' =
                  [future_to_settlement EXCEPT ![k] = worker_status(r)]
  /\ UNCHANGED <<batch_driver, batch_env, nominatim_lookups, force, batch_pc, batch_i, pool_broken,
                 stats, batch_results, processed_settlements>>
  /\ UNCHANGED nonBatchVars

\* a worker process dies: the pool is broken and every pending future
\* completes with BrokenProcessPool
WorkerProcessDies ==
  /\ batch_driver = "run_batch"
  /\ batch_pc \in {"loop", "collect"}
  /\ \E k \in 1..NumSettlements : future_to_settlement[k] = "pending"
  /\ pool_broken' = TRUE
  /\ future_to_settlement' =
       [k \in 1..NumSettlements |->
          IF future_to_settlement[k] = "pending" THEN "exception"
          ELSE future_to_settlement[k]]
  /\ UNCHANGED <<batch_driver, batch_env, nominatim_lookups, force, batch_pc, batch_i, pipeline_calls,
                 stats, batch_results, processed_settlements>>
  /\ UNCHANGED nonBatchVars

\* one iteration of "for future in as_completed(future_to_settlement)"
CollectResult ==
  /\ batch_driver = "run_batch"
  /\ batch_pc = "collect"
  /\ \E k \in 1..NumSettlements :
       /\ future_to_settlement[k] \in {"success", "failed_pipeline", "exception"}
       /\ stats' = [stats EXCEPT ![collect_counter(future_to_settlement[k])] = @ + 1]
       /\ processed_settlements' =
            IF future_to_settlement[k] = "success"
              THEN processed_settlements \cup {SettlementName(k)}
            ELSE processed_settlements
       /\ batch_results' = Append(batch_results,
            [settlement |-> k,
             status |-> IF future_to_settlement[k] = "exception" THEN "failed_pipeline"
                        ELSE future_to_settlement[k]])
       /\ future_to_settlement' = [future_to_settlement EXCEPT ![k] = "collected"]
  /\ UNCHANGED <<batch_driver, batch_env, nominatim_lookups, force, batch_pc, batch_i, pipeline_calls,
                 pool_broken>>
  /\ UNCHANGED nonBatchVars

\* every future was yielded: generate_summary_report and return
BatchDone ==
  /\ batch_driver = "run_batch"
  /\ batch_pc = "collect"
  /\ \A k \in 1..NumSettlements : future_to_settlement[k] \in {"none", "collected"}
  /\ batch_pc' = "done"
  /\ UNCHANGED <<batch_driver, batch_env, nominatim_lookups, force, batch_i, pipeline_calls,
                 future_to_settlement, pool_broken, stats, batch_results,
                 processed_settlements>>
  /\ UNCHANGED nonBatchVars

NextBatch ==
  \/ MainIterate
  \/ MainDone
  \/ BatchSkip
  \/ BatchResolveFailed
  \/ BatchSubmit
  \/ BatchLoopEnd
  \/ WorkerWrapper
  \/ WorkerProcessDies
  \/ CollectResult
  \/ BatchDone

SpecBatch == InitBatch /\ [][NextBatch]_vars

\* ------------------------------------ Step 3 on segments without geometry
\* A geometry cell: None (missing), or a geometry with the sequence of its
\* coordinates: empty, one coordinate (a point) or a first and a last
\* coordinate (a line).
NoGeometry == [is_none |-> TRUE, coords |-> <<>>]
Geometry(c) == [is_none |-> FALSE, coords |-> c]
Geometries ==
  {NoGeometry, Geometry(<<>>)} \cup {Geometry(<<p>>) : p \in Points}
    \cup {Geometry(<<p, q>>) : p, q \in Points}

has_coords(geom) == ~geom.is_none /\ Len(geom.coords) > 0

\* geom.coords[0] and geom.coords[-1]
with_endpoints(row) ==
  [osm_id |-> row.osm_id, start_point |-> row.geometry.coords[1],
   end_point |-> row.geometry.coords[Len(row.geometry.coords)]]

\* the exception of "lambda geom: geom.coords[0]" on the first row it fails for
coords_error(gdf) ==
  LET bad == {k \in 1..Len(gdf) : ~has_coords(gdf[k].geometry)}
      first == CHOOSE k \in bad : \A j \in bad : k <= j
  IN IF bad = {} THEN None
     ELSE IF gdf[first].geometry.is_none THEN "AttributeError in build_adjacency_map"
     ELSE "IndexError in build_adjacency_map"

\* the first loop of build_adjacency_map, over all rows
RECURSIVE build_endpoint_index(_, _)
build_endpoint_index(index, rows) ==
  IF Len(rows) = 0 THEN index
  ELSE build_endpoint_index(index_row(index, rows[1]), Tail(rows))

\* build_adjacency_map on rows that all have coordinates; each list is kept
\* as the set of its elements
build_adjacency_sets(gdf) ==
  LET rows == [k \in 1..Len(gdf) |-> with_endpoints(gdf[k])]
      index == build_endpoint_index([p \in Points |-> <<>>], rows)
  IN [id \in {rows[k].osm_id : k \in 1..Len(rows)} |->
        adjacents_of(index, rows[CHOOSE k \in 1..Len(rows) : rows[k].osm_id = id])]

InitGeometry ==
  /\ \E n \in 0..MaxAdjSeg : \E geoms \in [1..n -> Geometries] :
       geo_gdf = [k \in 1..n |-> [osm_id |-> SegId(k), geometry |-> geoms[k]]]
  /\ geo_map = <<>>
  /\ geo_pc = "step3"
  /\ geo_exc = None
  /\ PipeIdle
  /\ AdjIdle
  /\ ClsIdle
  /\ NormIdle
  /\ RtIdle
  /\ PromptIdle
  /\ BatchIdle
  /\ RetryIdle
  /\ VariantIdle

\* map_of_adjacents = build_adjacency_map(osm_gdf) returns
Step3Returns ==
  /\ geo_pc = "step3"
  /\ coords_error(geo_gdf) = None
  /\ geo_map' = build_adjacency_sets(geo_gdf)
  /\ geo_pc' = "step4"
  /\ UNCHANGED <<geo_gdf, geo_exc>>
  /\ UNCHANGED nonGeoVars

\* build_adjacency_map raises; run_pipeline has no handler around Step 3
Step3Raises ==
  /\ geo_pc = "step3"
  /\ coords_error(geo_gdf) # None
  /\ geo_exc' = coords_error(geo_gdf)
  /\ geo_pc' = "raised"
  /\ UNCHANGED <<geo_gdf, geo_map>>
  /\ UNCHANGED nonGeoVars

NextGeometry ==
  \/ Step3Returns
  \/ Step3Raises

SpecGeometry == InitGeometry /\ [][NextGeometry]_vars

\* ----------------------------------------- one call of get_ai_resolution
\* mutant: a sleep after every failed attempt, the last one included
should_sleep_always(attempt_no) == TRUE

\* "if attempt < MAX_RETRIES - 1: time.sleep(2 ** attempt)"
should_sleep(attempt_no) == attempt_no < MAX_RETRIES - 1

\* how one requests.post ended, as kept in retry_log
outcome_name(o) == IF o.kind = "exception" THEN o.what ELSE "response"

InitRetry ==
  /\ retry_key \in BOOLEAN
  /\ retry_attempt = 0
  /\ retry_log = <<>>
  /\ retry_sleeps = <<>>
  /\ retry_pc = "call"
  /\ retry_value = None
  /\ PipeIdle
  /\ AdjIdle
  /\ ClsIdle
  /\ NormIdle
  /\ RtIdle
  /\ PromptIdle
  /\ BatchIdle
  /\ GeoIdle
  /\ VariantIdle

\* "if not API_KEY: return 'None'"
RetryNoKey ==
  /\ retry_pc = "call"
  /\ ~retry_key
  /\ retry_pc' = "returned"
  /\ retry_value' = "None"
  /\ UNCHANGED <<retry_key, retry_attempt, retry_log, retry_sleeps>>
  /\ UNCHANGED nonRetryVars

\* one pass of "for attempt in range(MAX_RETRIES)": the request, then the
\* reply is parsed and returned, or the exception handler sleeps and the loop
\* goes on (ending with "return 'None'" when the range is exhausted), or the
\* handler returns 'None'
RetryAttempt ==
  /\ retry_pc \in {"call", "loop"}
  /\ retry_key
  /\ \E o \in HttpOutcomes :
       /\ retry_log' = Append(retry_log, outcome_name(o))
       /\ IF o.kind = "exception"
            THEN IF should_sleep(retry_attempt)
                   THEN /\ retry_sleeps' = Append(retry_sleeps, 2 ^ retry_attempt)
                        /\ retry_attempt' = retry_attempt + 1
                        /\ IF retry_attempt + 1 < MAX_RETRIES
                             THEN retry_pc' = "loop" /\ retry_value' = retry_value
                             ELSE retry_pc' = "returned" /\ retry_value' = "None"
                   ELSE /\ retry_pc' = "returned"
                        /\ retry_value' = "None"
                        /\ UNCHANGED <<retry_attempt, retry_sleeps>>
            ELSE LET r == parse_reply(o.body)
                 IN /\ retry_pc' = IF r.raised THEN "raised" ELSE "returned"
                    /\ retry_value' = r.value
                    /\ UNCHANGED <<retry_attempt, retry_sleeps>>
  /\ UNCHANGED retry_key
  /\ UNCHANGED nonRetryVars

NextRetry ==
  \/ RetryNoKey
  \/ RetryAttempt

SpecRetry == InitRetry /\ [][NextRetry]_vars

\* ------------------------------- main: the name variants of a settlement
\* A settlement name is the sequence of its characters: letters, hyphens and
\* apostrophes, with at least one letter.
SettlementChars == {"a", "-", "'"}
SettlementNames ==
  {s \in UNION {[1..n -> SettlementChars] : n \in 1..MaxNameChars} :
     \E k \in 1..Len(s) : s[k] = "a"}

\* str.replace("-", " ") and str.replace("'", "")
replace_hyphens(s) == [k \in 1..Len(s) |-> IF s[k] = "-" THEN " " ELSE s[k]]
remove_quotes(s) == LET Keep(c) == c # "'" IN SelectSeq(s, Keep)

\* mutant: the variant without apostrophes is tried before the one without
\* hyphens
variants_swapped(s) ==
  <<s, remove_quotes(s), replace_hyphens(s), remove_quotes(replace_hyphens(s))>>

\* the list "variants"
variants(s) ==
  <<s, replace_hyphens(s), remove_quotes(s), remove_quotes(replace_hyphens(s))>>

\* list(dict.fromkeys(variants)): duplicates removed, first occurrences kept
\* in order
RECURSIVE fromkeys(_)
fromkeys(l) ==
  IF Len(l) = 0 THEN <<>>
  ELSE LET front == fromkeys(SubSeq(l, 1, Len(l) - 1))
       IN IF l[Len(l)] \in Elems(front) THEN front ELSE Append(front, l[Len(l)])

InitVariants ==
  /\ settlement \in SettlementNames
  /\ osm_places \in SUBSET Elems(variants(settlement))
  /\ variant_i = 1
  /\ valid_place_name = NoName
  /\ osm_checks = <<>>
  /\ place_calls = <<>>
  /\ variant_pc = "variants"
  /\ PipeIdle
  /\ AdjIdle
  /\ ClsIdle
  /\ NormIdle
  /\ RtIdle
  /\ PromptIdle
  /\ BatchIdle
  /\ GeoIdle
  /\ RetryIdle

\* one iteration of "for variant in list(dict.fromkeys(variants))": the
\* variant is checked; if it exists it becomes valid_place_name and the loop
\* is left
CheckVariant ==
  /\ variant_pc = "variants"
  /\ variant_i <= Len(fromkeys(variants(settlement)))
  /\ LET variant == fromkeys(variants(settlement))[variant_i]
     IN /\ osm_checks' = Append(osm_checks, variant)
        /\ IF variant \in osm_places
             THEN /\ valid_place_name' = variant
                  /\ variant_pc' = "found"
                  /\ variant_i' = variant_i
             ELSE /\ valid_place_name' = valid_place_name
                  /\ variant_i' = variant_i + 1
                  /\ variant_pc' = IF variant_i = Len(fromkeys(variants(settlement)))
                                     THEN "found" ELSE "variants"
  /\ UNCHANGED <<settlement, osm_places, place_calls>>
  /\ UNCHANGED nonVariantVars

\* "if not valid_place_name: ... continue"
SkipSettlement ==
  /\ variant_pc = "found"
  /\ valid_place_name \in {NoName, <<>>}
  /\ variant_pc' = "next"
  /\ UNCHANGED <<settlement, osm_places, variant_i, valid_place_name, osm_checks,
                 place_calls>>
  /\ UNCHANGED nonVariantVars

\* run_pipeline(place=valid_place_name, ...) inside the try
CallPipeline ==
  /\ variant_pc = "found"
  /\ valid_place_name \notin {NoName, <<>>}
  /\ place_calls' = Append(place_calls, valid_place_name)
  /\ variant_pc' = "next"
  /\ UNCHANGED <<settlement, osm_places, variant_i, valid_place_name, osm_checks>>
  /\ UNCHANGED nonVariantVars

NextVariants ==
  \/ CheckVariant
  \/ SkipSettlement
  \/ CallPipeline

SpecVariants == InitVariants /\ [][NextVariants]_vars

\* ======================================================================
\*                               PROPERTIES
\* ======================================================================

\* the name variants of a segment that are scored (not null, not empty)
VariantsOf(seg) == {v \in {seg.he, seg.name, seg.original} : Truthy(v)}

\* the blended scores of every (variant, registry row of the settlement) pair
PairScores(seg) ==
  {weighted_score(fuzz(v, LAMAS_df[k].normalized_name)) :
     v \in VariantsOf(seg), k \in {j \in 1..Len(LAMAS_df) : LAMAS_df[j].city = seg.city}}

HasScores(seg) == PairScores(seg) # {}
TopScore(seg) == MaxOf(PairScores(seg))

RowOf(k) == candidates_df[k]
Classified(k) == k <= Len(candidates_df)

\* C2: a segment whose top blended score is s is CONFIDENT when s >= 90 (so at
\* exactly 90), NEEDS_AI when 80 <= s < 90 (so at exactly 80) and MISSING when
\* s < 80.
C2_ThresholdBoundaries ==
  \A k \in 1..Len(osm_gdf) :
    (Classified(k) /\ HasScores(osm_gdf[k])) =>
      LET s == TopScore(osm_gdf[k])
      IN /\ (s >= 900) => RowOf(k).status = "CONFIDENT"
         /\ (s >= 800 /\ s < 900) => RowOf(k).status = "NEEDS_AI"
         /\ (s < 800) => RowOf(k).status = "MISSING"

\* two classified segments, one scoring exactly 90 and one exactly 80
C2_Witness ==
  \E a, b \in 1..Len(candidates_df) :
    /\ HasScores(osm_gdf[a]) /\ TopScore(osm_gdf[a]) = 900
    /\ RowOf(a).status = "CONFIDENT"
    /\ HasScores(osm_gdf[b]) /\ TopScore(osm_gdf[b]) = 800
    /\ RowOf(b).status = "NEEDS_AI"

\* C3: every row has one of the three statuses; CONFIDENT and NEEDS_AI rows
\* carry a best identifier and a best name; MISSING rows carry neither a best
\* identifier nor a candidate list; once find_fuzzy_candidates has returned
\* there is exactly one row per input segment.
C3_RowShape ==
  /\ \A k \in 1..Len(candidates_df) :
       /\ RowOf(k).status \in {"CONFIDENT", "NEEDS_AI", "MISSING"}
       /\ RowOf(k).status \in {"CONFIDENT", "NEEDS_AI"} =>
            (RowOf(k).best_LAMAS_id # None /\ RowOf(k).best_LAMAS_name # None)
       /\ RowOf(k).status = "MISSING" =>
            (RowOf(k).best_LAMAS_id = None /\ RowOf(k).all_candidates = None)
  /\ pc \in {"step5", "ai_call", "step6", "step6_5", "done", "raised"} =>
       \A s \in 1..Len(osm_gdf) :
         Cardinality({k \in 1..Len(candidates_df) : RowOf(k).osm_id = osm_gdf[s].osm_id}) = 1

\* the table was returned with a NEEDS_AI row and a MISSING row
C3_Witness ==
  /\ pc = "step5"
  /\ \E a, b \in 1..Len(candidates_df) :
       RowOf(a).status = "NEEDS_AI" /\ RowOf(b).status = "MISSING"

\* C6: a classified segment keeps its row (it is classified once and never
\* becomes unclassified again); get_ai_resolution is called at most once per
\* segment, and only for a segment whose status is NEEDS_AI; a segment has at
\* most one entry in the final mapping.
C6_Lifecycle ==
  /\ [](\A k \in 1..Len(osm_gdf) :
          /\ ai_calls[k] <= 1
          /\ ai_calls[k] > 0 => (Classified(k) /\ RowOf(k).status = "NEEDS_AI")
          /\ Cardinality({j \in 1..Len(final_mapping_df) :
                            final_mapping_df[j].osm_id = osm_gdf[k].osm_id}) <= 1)
  /\ [][/\ Len(candidates_df') >= Len(candidates_df)
        /\ \A k \in 1..Len(candidates_df) : candidates_df'[k] = candidates_df[k]]_vars

\* a run ended in which the arbitrator was called for a NEEDS_AI segment while
\* another segment was CONFIDENT
C6_Witness ==
  /\ pc = "done"
  /\ \E a, b \in 1..Len(osm_gdf) :
       /\ ai_calls[a] = 1 /\ RowOf(a).status = "NEEDS_AI"
       /\ ai_calls[b] = 0 /\ RowOf(b).status = "CONFIDENT"


\* ------------------------------------------------------------ adjacency
AdjIds == {adj_gdf[k].osm_id : k \in 1..Len(adj_gdf)}
Ends(row) == {row.start_point, row.end_point}

\* C7: the returned map is symmetric: B is listed for A iff A is listed for B.
C7_AdjacencySymmetric ==
  adj_pc = "done" =>
    \A a, b \in DOMAIN adjacency_map :
      (b \in Elems(adjacency_map[a])) <=> (a \in Elems(adjacency_map[b]))

\* the map was returned and the start of one segment is the end of another
C7_Witness ==
  /\ adj_pc = "done"
  /\ \E a, b \in 1..Len(adj_gdf) :
       /\ a # b
       /\ adj_gdf[a].start_point = adj_gdf[b].end_point
       /\ adj_gdf[a].end_point # adj_gdf[b].start_point
       /\ adj_gdf[b].osm_id \in Elems(adjacency_map[adj_gdf[a].osm_id])

\* C8: every segment is a key of the returned map; its list holds exactly the
\* other segments that have an endpoint equal to one of its endpoints, never
\* the segment itself and no identifier twice, and is empty for a segment that
\* shares no endpoint.
C8_AdjacencyExact ==
  adj_pc = "done" =>
    /\ DOMAIN adjacency_map = AdjIds
    /\ \A k \in 1..Len(adj_gdf) :
         LET lst == adjacency_map[adj_gdf[k].osm_id]
         IN /\ Elems(lst) = {adj_gdf[j].osm_id :
                               j \in {t \in 1..Len(adj_gdf) :
                                        t # k /\ Ends(adj_gdf[t]) \cap Ends(adj_gdf[k]) # {}}}
            /\ Cardinality(Elems(lst)) = Len(lst)

\* the map was returned for two closed segments on one coordinate: each is
\* indexed twice under the key it looks up, and each lists the other once
C8_Witness ==
  /\ adj_pc = "done"
  /\ \E a, b \in 1..Len(adj_gdf) :
       /\ a # b
       /\ adj_gdf[a].start_point = adj_gdf[a].end_point
       /\ adj_gdf[b].start_point = adj_gdf[a].start_point
       /\ adj_gdf[b].end_point = adj_gdf[a].start_point
       /\ adjacency_map[adj_gdf[a].osm_id] = <<adj_gdf[b].osm_id>>

\* ------------------------------------------------------ refuted statements
FinalIdOf(k) ==
  LET rows == {j \in 1..Len(diagnostic_df_full) :
                 diagnostic_df_full[j].osm_id = osm_gdf[k].osm_id}
  IN {diagnostic_df_full[j].final_LAMAS_id : j \in rows}

InFinalMapping(k) ==
  \E j \in 1..Len(final_mapping_df) : final_mapping_df[j].osm_id = osm_gdf[k].osm_id

\* C1: when the arbitrator is unavailable (use_ai false or no API key), every
\* NEEDS_AI segment ends the run without a final identifier and outside the
\* final mapping, and the diagnostics report ai_resolved_matches = 0.
C1_UnavailableDegradesToMissing ==
  (pc = "done" /\ ~(use_ai /\ API_KEY)) =>
    /\ \A k \in 1..Len(osm_gdf) :
         RowOf(k).status = "NEEDS_AI" => (FinalIdOf(k) = {NaN} /\ ~InFinalMapping(k))
    /\ diagnostics.ai_resolved_matches = 0

VerdictOf(k) ==
  {ai_results[j].ai_LAMAS_id :
     j \in {t \in 1..Len(ai_results) : ai_results[t].osm_id = osm_gdf[k].osm_id}}

\* C4: a NEEDS_AI segment whose verdict is 'None', or whose reply cannot be
\* parsed into an identifier, has no entry in the final mapping and is counted
\* as unmatched, and the run does not raise.
C4_NoMatchDegradesToMissing ==
  /\ ~(pc = "raised" /\ exc = "IndexError in get_ai_resolution")
  /\ pc \in {"step6_5", "done"} =>
       \A k \in 1..Len(osm_gdf) :
         (RowOf(k).status = "NEEDS_AI" /\ VerdictOf(k) = {"None"}) => ~InFinalMapping(k)
  /\ (pc = "done" /\ diagnostics.rev = "root") =>
       diagnostics.unmatched_osm_streets >=
         Cardinality({k \in 1..Len(osm_gdf) :
                        RowOf(k).status = "NEEDS_AI" /\ VerdictOf(k) = {"None"}})

\* C5: get_ai_resolution never lets an exception out; whatever the HTTP call
\* ends in, it returns a digit-only identifier or 'None'.
C5_NeverPropagates ==
  /\ exc \notin {"IndexError in get_ai_resolution"}
  /\ \A j \in 1..Len(ai_results) :
       ai_results[j].ai_LAMAS_id \in {"None", "101", "202", "101202"}

\* the registry rows the diagnostics look at
StreetRows(rev, city) ==
  LET rows == LamasSubset(LAMAS_df, city)
      IsStreet(r) == Len(r.LAMAS_id) = STREET_CODE_LEN
  IN IF rev = "src" THEN SelectSeq(rows, IsStreet) ELSE rows

FinalIds == UNION {FinalIdOf(k) : k \in 1..Len(osm_gdf)} \ {NaN}

\* C9: no name registered under an identifier that is some segment's final
\* identifier is listed as unmatched, and unmatched_lamas_count is the number
\* of distinct unmatched identifiers.
C9_MatchedIdNeverUnmatched ==
  pc = "done" =>
    LET rows == StreetRows(diagnostics.rev, osm_gdf[1].city)
        unmatched_ids == {rows[k].LAMAS_id : k \in 1..Len(rows)} \ FinalIds
    IN /\ \A k \in 1..Len(rows) :
            rows[k].LAMAS_id \in FinalIds =>
              rows[k].LAMAS_name \notin Elems(diagnostics.unmatched_lamas_street_names)
       /\ diagnostics.unmatched_lamas_count = Cardinality(unmatched_ids)

\* C10: the best candidate of a segment is the highest-scoring (variant,
\* registry entry) pair over all its name variants: best_score is that
\* maximum, best_LAMAS_id the identifier of such a pair, and the row names the
\* variant that produced the match.
C10_BestOverAllVariants ==
  \A k \in 1..Len(candidates_df) :
    HasScores(osm_gdf[k]) =>
      /\ RowOf(k).best_score = TopScore(osm_gdf[k])
      /\ RowOf(k).status # "MISSING" =>
           \E v \in VariantsOf(osm_gdf[k]) :
             \E j \in 1..Len(LAMAS_df) :
               /\ LAMAS_df[j].city = osm_gdf[k].city
               /\ LAMAS_df[j].LAMAS_id = RowOf(k).best_LAMAS_id
               /\ weighted_score(fuzz(v, LAMAS_df[j].normalized_name)) = TopScore(osm_gdf[k])
      /\ RowOf(k).status # "MISSING" => "matched_osm_name" \in DOMAIN RowOf(k)

\* ------------------------------------------------- candidate list (C11)
\* identifiers whose best score lies in [80, 90)
BandIds(all) == {x \in ScoreIds(all) : in_ai_band(TopOf(all, x))}
ListIds(lst) == {lst[k].ID : k \in 1..Len(lst)}

\* C11: a NEEDS_AI row keeps between 1 and 5 candidates, each with a score in
\* [80, 90) (the best score of its identifier), in descending score order, no
\* identifier twice; no candidate left out scores higher than one kept, and
\* one is left out only when 5 are kept; best_LAMAS_id, best_LAMAS_name and
\* best_score are those of the first entry.
C11_CandidateList ==
  (cls_pc = "done" /\ candidate.status = "NEEDS_AI") =>
    LET lst == candidate.all_candidates
    IN /\ Len(lst) >= 1 /\ Len(lst) <= 5
       /\ \A k \in 1..Len(lst) :
            /\ in_ai_band(lst[k].Score)
            /\ lst[k].ID \in ScoreIds(all_scores)
            /\ lst[k].Score = TopOf(all_scores, lst[k].ID)
       /\ \A k \in 1..(Len(lst) - 1) : lst[k].Score >= lst[k + 1].Score
       /\ Cardinality(ListIds(lst)) = Len(lst)
       /\ \A x \in BandIds(all_scores) \ ListIds(lst) :
            /\ Len(lst) = 5
            /\ \A k \in 1..Len(lst) : lst[k].Score >= TopOf(all_scores, x)
       /\ candidate.best_LAMAS_id = lst[1].ID
       /\ candidate.best_LAMAS_name = lst[1].Name
       /\ candidate.best_score = lst[1].Score

\* a NEEDS_AI row was built from six in-band identifiers, one of them scored
\* twice and one left out of the list
C11_Witness ==
  /\ cls_pc = "done"
  /\ candidate.status = "NEEDS_AI"
  /\ Len(candidate.all_candidates) = 5
  /\ Cardinality(BandIds(all_scores)) = 6
  /\ Len(all_scores) = 7

\* ------------------------------------------------ MISSING rows (C12)
\* C12: a MISSING row has no best identifier, no best name and no candidate
\* list; its best_score is 0 when nothing was scored (no registry row for the
\* settlement, or no name variant that is neither null nor empty) and
\* otherwise the highest blended score of the segment, which is below 80.
C12_MissingBestScore ==
  \A k \in 1..Len(candidates_df) :
    RowOf(k).status = "MISSING" =>
      /\ RowOf(k).best_LAMAS_id = None
      /\ RowOf(k).best_LAMAS_name = None
      /\ RowOf(k).all_candidates = None
      /\ ~HasScores(osm_gdf[k]) => RowOf(k).best_score = 0
      /\ HasScores(osm_gdf[k]) =>
           (RowOf(k).best_score = TopScore(osm_gdf[k]) /\ RowOf(k).best_score < 800)

\* the table was returned with a MISSING row for which nothing was scored and
\* a MISSING row whose best candidate scored 50
C12_Witness ==
  /\ pc = "step5"
  /\ \E a, b \in 1..Len(candidates_df) :
       /\ RowOf(a).status = "MISSING" /\ ~HasScores(osm_gdf[a])
       /\ RowOf(a).best_score = 0
       /\ RowOf(b).status = "MISSING" /\ HasScores(osm_gdf[b])
       /\ RowOf(b).best_score = 500

\* ------------------------------------------- normalize_street_name (C13)
\* C13: normalizing a normalized name changes nothing.
C13_Idempotent ==
  norm_pc = "twice" => norm_twice = norm_once

\* ------------------------------------------- normalize_street_name (C14)
\* the maximal runs of word characters and of other characters of s
RECURSIVE Runs(_)
Runs(s) ==
  IF Len(s) = 0 THEN <<>>
  ELSE LET rest == Runs(Tail(s))
       IN IF Len(rest) > 0 /\ ((rest[1][1] \in WordChars) = (s[1] \in WordChars))
            THEN << <<s[1]>> \o rest[1] >> \o Tail(rest)
          ELSE << <<s[1]>> >> \o rest

ShortForms == {replacements[k].old : k \in 1..Len(replacements)}
FullForms == {replacements[k].new : k \in 1..Len(replacements)}
FullOf(w) == replacements[CHOOSE k \in 1..Len(replacements) : replacements[k].old = w].new

\* the words of s that are exactly a short form
WholeWordShort(s) == {k \in 1..Len(Runs(s)) : Runs(s)[k] \in ShortForms}

\* s with the words of the set chosen replaced by their full forms
ExpandRuns(s, chosen) ==
  Concat([k \in 1..Len(Runs(s)) |->
            IF k \in chosen THEN FullOf(Runs(s)[k]) ELSE Runs(s)[k]])

Letters(s) == LET IsLetter(c) == c \in WordChars IN SelectSeq(s, IsLetter)

RECURSIVE Words(_)
Words(s) ==
  IF Len(s) = 0 THEN <<>>
  ELSE LET rest == Words(Tail(s))
       IN IF s[1] = " " THEN << <<>> >> \o rest
          ELSE IF Len(rest) = 0 THEN << <<s[1]>> >>
          ELSE << <<s[1]>> \o rest[1] >> \o Tail(rest)

\* C15: a result of two or more words neither begins nor ends with a generic
\* street-type word (the full forms of street, boulevard and square), so
\* "street X" and "X street" both give "X"; a result that is one generic word
\* alone is kept.
C15_GenericWordRemoved ==
  (norm_pc = "once" /\ norm_input # NoName) =>
    LET ws == Words(norm_once)
    IN /\ (Len(ws) >= 2 /\ \E k \in 1..Len(ws) : ws[k] \notin FullForms) =>
            (ws[1] \notin FullForms /\ ws[Len(ws)] \notin FullForms)
       /\ norm_input \in FullForms => norm_once = norm_input

\* ------------------------------------------------------ round trip (C16)
\* C16: the list parsed from the all_candidates text has as many entries as
\* the candidate list that was written, in the same order, each with the
\* identifier and the name of the candidate written.
C16_RoundTrip ==
  rt_pc = "parsed" =>
    /\ Len(lamas_candidates) = Len(ai_candidates)
    /\ \A k \in 1..Len(lamas_candidates) :
         /\ lamas_candidates[k].id = ai_candidates[k].LAMAS_id
         /\ lamas_candidates[k].name = ai_candidates[k].LAMAS_name

\* --------------------------------------------- request contents (C17)
PromptIndex(osm_id) == CHOOSE k \in 1..Len(prompt_gdf) : prompt_gdf[k].osm_id = osm_id
PromptParts(k) == Elems(prompts[k].prompt)
NeighbourNames(osm_id) ==
  {prompt_gdf[PromptIndex(x)].normalized_name :
     x \in Elems(map_of_adjacents[PromptIndex(osm_id)])}
AllPromptNames == {prompt_gdf[k].normalized_name : k \in 1..Len(prompt_gdf)}
AllPromptCandidates ==
  {prompt_candidates[k].all_candidates : k \in 1..Len(prompt_candidates)} \ {None}

\* C17: every request sent for a segment contains the segment's settlement
\* name, its normalized name, the normalized names of the segments adjacent
\* to it (or the marker for none when it has no adjacent segment) and its own
\* candidate list, and no other segment's candidate list or neighbours.
C17_RequestContents ==
  \A k \in 1..Len(prompts) :
    LET s == PromptIndex(prompts[k].osm_id)
        own == prompt_gdf[s].normalized_name
    IN /\ prompt_gdf[s].city \in PromptParts(k)
       /\ own \in PromptParts(k)
       /\ PromptParts(k) \cap (AllPromptNames \ {own}) = NeighbourNames(prompts[k].osm_id)
       /\ (NeighbourNames(prompts[k].osm_id) = {}) = ("None" \in PromptParts(k))
       /\ PromptParts(k) \cap AllPromptCandidates = {prompt_candidates[s].all_candidates}

\* ------------------------------------------------ batch isolation (C18)
CalledFor == {pipeline_calls[k].settlement : k \in 1..Len(pipeline_calls)}
FailedCalls == {k \in 1..Len(pipeline_calls) : pipeline_calls[k].raised # None}

\* the settlements for which the driver has to run the pipeline
DueForPipeline ==
  IF batch_driver = "main"
    THEN {k \in 1..NumSettlements : batch_env[k].exists}
  ELSE {k \in 1..NumSettlements :
          /\ force \/ ~batch_env[k].processed
          /\ batch_env[k].resolve = "ready_for_pipeline"}

UsableSegments ==
  {geo_gdf[k].osm_id :
     k \in {j \in 1..Len(geo_gdf) :
              ~geo_gdf[j].geometry.is_none /\ Len(geo_gdf[j].geometry.coords) >= 2}}

\* C19: Step 3 never ends the run; once it is over, exactly the segments
\* whose geometry has at least two coordinates are indexed for adjacency.
C19_BadGeometryRejected ==
  /\ geo_pc # "raised"
  /\ geo_pc = "step4" => DOMAIN geo_map = UsableSegments

\* -------------------------------------------- order independence (C20)
\* every order of the verdicts
OrdersOf(s) == {[k \in 1..Len(s) |-> s[p[k]]] : p \in ListsOf(1..Len(s))}

\* the verdicts given for one segment
OwnVerdicts(osm_id) ==
  LET Own(r) == r.osm_id = osm_id IN SelectSeq(ai_results, Own)

\* the rows of the final mapping of one segment
OwnFinalRows(osm_id) ==
  LET Own(r) == r.osm_id = osm_id IN SelectSeq(final_mapping_df, Own)

\* C20: once the verdicts are merged, the final mapping is the one every
\* order of the verdicts gives; it has at most one row per segment; the rows
\* of a segment are those its own classification row and its own verdicts
\* give alone; and a CONFIDENT segment is mapped to its best_LAMAS_id.
C20_OrderIndependentMerge ==
  pc \in {"step6_5", "done"} =>
    /\ \A order \in OrdersOf(ai_results) :
         FinalMapping(AiDecisionsMerged(candidates_df, order)) = final_mapping_df
    /\ \A k \in 1..Len(candidates_df) :
         LET row == candidates_df[k]
         IN /\ Len(OwnFinalRows(row.osm_id)) <= 1
            /\ OwnFinalRows(row.osm_id) =
                 FinalMapping(AiDecisionsMerged(<<row>>, OwnVerdicts(row.osm_id)))
            /\ row.status = "CONFIDENT" =>
                 OwnFinalRows(row.osm_id) =
                   << [osm_id |-> row.osm_id, final_LAMAS_id |-> row.best_LAMAS_id] >>

\* two segments went to arbitration, the second received a verdict other than
\* the first's, and both verdicts were merged
C20_Witness ==
  /\ pc = "done"
  /\ Len(ai_results) = 2
  /\ ai_results[1].ai_LAMAS_id = "101"
  /\ ai_results[2].ai_LAMAS_id = "202"
  /\ Len(final_mapping_df) = 2

\* ------------------------------------------- determinism under ties (C21)
\* C21: for every classified segment, every row find_fuzzy_candidates can
\* append for it on the same inputs has the status, the best_LAMAS_id and the
\* candidate list of the row that was appended.
C21_DeterministicUnderTies ==
  \A k \in 1..Len(candidates_df) :
    \A r \in find_fuzzy_candidates_row(osm_gdf[k], LAMAS_df) :
      /\ r.status = RowOf(k).status
      /\ r.best_LAMAS_id = RowOf(k).best_LAMAS_id
      /\ r.all_candidates = RowOf(k).all_candidates

\* ------------------------------------------------ retry and backoff (C22)
\* the requests that ended in an exception
FailedRequests == {k \in 1..Len(retry_log) : retry_log[k] # "response"}

ClaimedOrder(s) ==
  <<s, replace_hyphens(s), remove_quotes(s), remove_quotes(replace_hyphens(s))>>

\* the position of the first variant of the claimed order that exists, or 0
FirstExisting(s) ==
  IF \E k \in 1..4 : ClaimedOrder(s)[k] \in osm_places
    THEN CHOOSE k \in 1..4 :
           /\ ClaimedOrder(s)[k] \in osm_places
           /\ \A j \in 1..(k - 1) : ClaimedOrder(s)[j] \notin osm_places
  ELSE 0

\* C23: the checks made so far are the variants in the claimed order without
\* repetition, none after a variant that exists; when the iteration is over,
\* run_pipeline was called once with the first existing variant, or not at
\* all when no variant exists.
C23_FirstValidVariant ==
  /\ \A k \in 1..Len(osm_checks) :
       /\ osm_checks[k] \in Elems(ClaimedOrder(settlement))
       /\ \A j \in 1..(k - 1) :
            /\ osm_checks[j] # osm_checks[k]
            /\ osm_checks[j] \notin osm_places
            /\ \E a, b \in 1..4 :
                 /\ a < b
                 /\ ClaimedOrder(settlement)[a] = osm_checks[j]
                 /\ ClaimedOrder(settlement)[b] = osm_checks[k]
  /\ Len(osm_checks) > 0 => osm_checks[1] = settlement
  /\ variant_pc = "next" =>
       IF FirstExisting(settlement) = 0
         THEN /\ place_calls = <<>>
              /\ Elems(osm_checks) = Elems(ClaimedOrder(settlement))
         ELSE /\ place_calls = <<ClaimedOrder(settlement)[FirstExisting(settlement)]>>
              /\ osm_checks[Len(osm_checks)] = place_calls[1]
  /\ variant_pc # "next" => place_calls = <<>>

\* the shape of test_settlement_name_variations: the name and its variant
\* with spaces do not exist, the variant without the apostrophe does, and
\* run_pipeline was called with it after three checks
C23_Witness ==
  /\ settlement = <<"a", "-", "'">>
  /\ osm_places = {<<"a", "-">>}
  /\ osm_checks = << <<"a", "-", "'">>, <<"a", " ", "'">>, <<"a", "-">> >>
  /\ place_calls = << <<"a", "-">> >>
  /\ variant_pc = "next"

\* ------------------------------------------- settlement scoping (C24)
\* the identifiers the registry holds for a settlement label
RegistryIds(osm_city) ==
  {LAMAS_df[j].LAMAS_id : j \in {n \in 1..Len(LAMAS_df) : LAMAS_df[n].city = osm_city}}

\* C24: for every classified segment, best_LAMAS_id (when there is one) and
\* every identifier of the candidate list belong to a registry entry whose
\* settlement label is the segment's.
C24_CandidatesScopedBySettlement ==
  \A k \in 1..Len(candidates_df) :
    LET registry_ids == RegistryIds(osm_gdf[k].city)
    IN /\ RowOf(k).status \in {"CONFIDENT", "NEEDS_AI"} =>
            RowOf(k).best_LAMAS_id \in registry_ids
       /\ RowOf(k).status = "NEEDS_AI" =>
            \A c \in 1..Len(RowOf(k).all_candidates) :
              RowOf(k).all_candidates[c].ID \in registry_ids
       /\ RowOf(k).status = "MISSING" => RowOf(k).best_LAMAS_id = None

\* a segment of c1 whose name scores 100 against a registry name of c1 and
\* against one of c3 was matched to the identifier of c1, a segment of c2
\* (no registry rows) is MISSING, although its name scores 100 against names
\* of c1 and c3
C24_Witness ==
  /\ Len(candidates_df) = 2
  /\ osm_gdf[1].city = "c1" /\ osm_gdf[1].name = "x100" /\ osm_gdf[1].he = None
  /\ weighted_score(fuzz("x100", "L6")) = 1000
  /\ RowOf(1).status = "CONFIDENT" /\ RowOf(1).best_LAMAS_id = "101"
  /\ osm_gdf[2].city = "c2" /\ osm_gdf[2].name = "x100"
  /\ RowOf(2).status = "MISSING"

\* ------------------------------------------ verdict among candidates (C25)
\* the identifiers of the candidate list of segment k
CandidateIds(k) ==
  {RowOf(k).all_candidates[c].ID : c \in 1..Len(RowOf(k).all_candidates)}

\* C25: when the pipeline is done, the final identifier of every NEEDS_AI
\* segment of the final mapping is one of the identifiers of the candidate
\* list that was sent to the arbitrator for it.
C25_VerdictAmongCandidates ==
  pc = "done" =>
    \A k \in 1..Len(candidates_df) :
      (RowOf(k).status = "NEEDS_AI" /\ InFinalMapping(k)) =>
        FinalIdOf(k) \subseteq CandidateIds(k)

\* ------------------------------------------- the Hebrew shortcut (C26)
\* every non-null normalized name variant of a segment, the Hebrew one
\* included
AllVariants(osm_row) == {osm_row.he, osm_row.name, osm_row.original} \ {None}

\* the scores of every variant against every registry row of the settlement
OverallScores(osm_row) ==
  LET lamas_subset == LamasSubset(LAMAS_df, osm_row.city)
  IN {weighted_score(fuzz(v, lamas_subset[j].normalized_name)) :
        v \in {n \in AllVariants(osm_row) : n # ""},
        j \in 1..Len(lamas_subset)}

\* the status of the overall maximum
StatusOfOverallMaximum(osm_row) ==
  LET scores == OverallScores(osm_row)
      best == IF scores = {} THEN 0 ELSE MaxOf(scores)
  IN IF best >= 10 * CONFIDENT_THRESHOLD THEN "CONFIDENT"
     ELSE IF best >= 10 * AI_FLOOR THEN "NEEDS_AI"
     ELSE "MISSING"

\* C26: the status of every classified segment is the status of the maximum
\* over all its name variants and all registry rows of its settlement, whether
\* or not the Hebrew shortcut was taken.
C26_ShortcutKeepsStatus ==
  \A k \in 1..Len(candidates_df) :
    RowOf(k).status = StatusOfOverallMaximum(osm_gdf[k])

\* the shortcut was taken on a Hebrew name scoring 90 although the primary
\* name scores 100 against another identifier: the status is CONFIDENT either
\* way, the identifier is the Hebrew one
C26_Witness ==
  \E k \in 1..Len(candidates_df) :
    /\ osm_gdf[k].he = "x90" /\ osm_gdf[k].name = "x100"
    /\ MaxOf(OverallScores(osm_gdf[k])) = 1000
    /\ RowOf(k).status = "CONFIDENT"
    /\ RowOf(k).best_score = 900
    /\ RowOf(k).best_LAMAS_id = "202"

\* ------------------------------------------------- batch accounting (C27)
\* the entries of results for settlement k
EntriesOf(k) == {j \in 1..Len(batch_results) : batch_results[j].settlement = k}

\* C27: when run_batch has finished, every settlement has exactly one entry
\* in results, total_settlements = skipped_already_processed +
\* failed_nominatim + failed_validation + matched, and matched = successful +
\* failed_pipeline, whatever the order in which the tasks completed.
C27_BatchAccounting ==
  (batch_driver = "run_batch" /\ batch_pc = "done") =>
    /\ \A k \in 1..NumSettlements : Cardinality(EntriesOf(k)) = 1
    /\ Len(batch_results) = NumSettlements
    /\ stats.total_settlements = NumSettlements
    /\ stats.total_settlements =
         stats.skipped_already_processed + stats.failed_nominatim
           + stats.failed_validation + stats.matched
    /\ stats.matched = stats.successful + stats.failed_pipeline

\* a finished batch with one settlement skipped and two tasks that completed
\* in the reverse of the order of their submission, one of them by an
\* exception of future.result()
C27_Witness ==
  /\ batch_driver = "run_batch" /\ batch_pc = "done"
  /\ NumSettlements = 3
  /\ batch_results[1] = [settlement |-> 3, status |-> "skipped"]
  /\ batch_results[2].settlement = 2
  /\ batch_results[3].settlement = 1
  /\ pool_broken
  /\ Len(pipeline_calls) = 1
  /\ stats.matched = 2 /\ stats.failed_pipeline = 2 /\ stats.skipped_already_processed = 1

\* ------------------------------------------- the processed set (C28)
\* the settlements in processed_settlements when the batch started
InitiallyProcessed == {SettlementName(k) : k \in {j \in 1..NumSettlements : batch_env[j].processed}}

\* C28: a settlement is in the processed set only if it was there at the
\* start or its worker's result, status 'success', has been collected; while
\* force is false a settlement of the processed set gets no location lookup
\* and no pipeline task.
C28_ProcessedSet ==
  batch_driver = "run_batch" =>
    /\ \A k \in 1..NumSettlements :
         SettlementName(k) \in processed_settlements =>
           \/ SettlementName(k) \in InitiallyProcessed
           \/ \E j \in EntriesOf(k) : batch_results[j].status = "success"
    /\ ~force =>
         \A k \in 1..NumSettlements :
           SettlementName(k) \in processed_settlements =>
             /\ \A j \in 1..Len(nominatim_lookups) : nominatim_lookups[j] # k
             /\ future_to_settlement[k] = "none"
             /\ \A j \in 1..Len(pipeline_calls) : pipeline_calls[j].settlement # k
             /\ \A j \in EntriesOf(k) : batch_results[j].status = "skipped"

\* without force, a processed settlement was skipped while the next one was
\* looked up and submitted; its worker returned failed_pipeline and it did not
\* enter the processed set
C28_Witness ==
  /\ batch_driver = "run_batch" /\ batch_pc = "done" /\ ~force
  /\ NumSettlements = 2
  /\ processed_settlements = {SettlementName(1)}
  /\ nominatim_lookups = <<2>>
  /\ batch_results = << [settlement |-> 1, status |-> "skipped"],
                        [settlement |-> 2, status |-> "failed_pipeline"] >>
  /\ pipeline_calls = << [settlement |-> 2, raised |-> "TypeError"] >>

\* -------------------------------------------- diagnostics counts (C29)
\* C29: in the diagnostics of a completed run, confident_matches +
\* ai_resolved_matches = total_matched, total_matched + unmatched_osm_streets
\* = total_osm_streets, the four counts are not negative, and
\* unmatched_lamas_count is at most total_lamas_streets.
C29_CountsConsistent ==
  pc = "done" =>
    /\ diagnostics.confident_matches + diagnostics.ai_resolved_matches
         = diagnostics.total_matched
    /\ diagnostics.total_matched + diagnostics.unmatched_osm_streets
         = diagnostics.total_osm_streets
    /\ diagnostics.confident_matches >= 0
    /\ diagnostics.ai_resolved_matches >= 0
    /\ diagnostics.total_matched >= 0
    /\ diagnostics.unmatched_osm_streets >= 0
    /\ diagnostics.unmatched_lamas_count <= diagnostics.total_lamas_streets

\* ---------------------------------------- empty segment collection (C30)
\* C30: a run whose segment collection is empty after normalization never
\* raises and can always go on until it is done, and then the final mapping
\* is empty and the counts of the diagnostics are zero.
C30_EmptyCollectionCompletes ==
  Len(osm_gdf) = 0 =>
    /\ pc # "raised"
    /\ pc \notin {"done", "idle"} => ENABLED Next
    /\ pc = "done" =>
         /\ final_mapping_df = <<>>
         /\ diagnostics.total_osm_streets = 0
         /\ diagnostics.confident_matches = 0
         /\ diagnostics.ai_resolved_matches = 0
         /\ diagnostics.total_matched = 0
         /\ diagnostics.unmatched_osm_streets = 0

====
